---- MODULE Spec2Model ----
(***************************************************************************)
(* Verification model of sim/main.cpp of vga-nyancat: the signal-to-pixel  *)
(* decoder simulate_frame, the stream validators TimingMonitor and         *)
(* SyncValidator, the CoordinateValidator, the ChangeTracker, the          *)
(* RenderProfiler and the PNG encoder save_png with its crc32.             *)
(*                                                                         *)
(* The video mode is a scaled-down one (the shipped modes start at         *)
(* 640x480, whose framebuffer no explicit-state check can enumerate); the  *)
(* code is parametric in these eight numbers and uses them only through    *)
(* the expressions reproduced below.                                       *)
(***************************************************************************)
EXTENDS Integers, Sequences, FiniteSets, TLC

\* ------------------------------------------------------------ video mode
H_RES == 2
V_RES == 2
H_FP == 1
H_SYNC == 3
H_BP == 1
V_FP == 1
V_SYNC == 3
V_BP == 1

H_BLANKING == H_FP + H_SYNC + H_BP
V_BLANKING == V_FP + V_SYNC + V_BP
H_TOTAL == H_RES + H_BLANKING
V_TOTAL == V_RES + V_BLANKING

\* Largest edge count of one simulate_frame call explored.
MaxBatch == 2

\* The 6-bit color codes the signal source is let to emit: blue 3, green 2,
\* red 1, so that every channel of a written pixel differs from the others
\* and from the cleared framebuffer.
ColorCodes == {27}

\* std::vector<uint8_t> framebuffer(H_RES * V_RES * 4, 0)
FB_SIZE == H_RES * V_RES * 4

\* One sample of the signal source, read from top after eval().
Samples ==
    [hsync : BOOLEAN, vsync : BOOLEAN, activevideo : BOOLEAN, rrggbb : ColorCodes]

VARIABLES
    top,         \* output ports of the Verilated model after the last eval()
    fb,          \* framebuffer bytes, index 0 .. FB_SIZE-1
    hpos, vpos,  \* position, owned by main and passed by reference
    row_base,    \* simulate_frame's local; -1 as well while no call is active
    prev_vsync,  \* simulate_frame's function-static
    clocks,      \* iterations the active simulate_frame call still has to run
    wr,          \* byte indices stored to by the last edge
    frame_end,   \* the last edge met the condition that triggers track(fb)
    ref,         \* the same sample stream decoded by one single call
    mon,         \* the fields of a TimingMonitor object
    gen,         \* the signal source feeding the monitor, and what it has fed
    meas,        \* periods and pulses of the stream fed to the monitor
    sv,          \* the fields of a SyncValidator object, and its last stderr
    obs,         \* what the stream fed to the SyncValidator has contained
    cv,          \* the fields of a CoordinateValidator object
    cvr,         \* the last call on it: arguments, return value, stderr lines
    ct,          \* the fields of a ChangeTracker object
    shown,       \* the framebuffers passed to its track, in call order
    prof,        \* the fields of a RenderProfiler object
    profr,       \* the last tick call on it: arguments and number of calls
    png,         \* one save_framebuffer_png call: arguments, environment, outcome
    crcv,        \* one crc32 call: arguments and return value
    sess         \* main: mode, flags, place in the session, reports printed

vars ==
    <<top, fb, hpos, vpos, row_base, prev_vsync, clocks, wr, frame_end, ref,
      mon, gen, meas, sv, obs, cv, cvr, ct, shown, prof, profr, png, crcv,
      sess>>

\* The objects that exist only when their command-line flag is given.
validatorVars == <<sv, obs, cv, cvr, ct, shown, prof, profr, png, crcv>>

\* The image encoder's calls.
encoderVars == <<png, crcv>>

decoderVars ==
    <<top, fb, hpos, vpos, row_base, prev_vsync, clocks, wr, frame_end, ref>>

Max(a, b) == IF a > b THEN a ELSE b

\* The command-line flags that create an object, and those of them that
\* create a validator.
Flags == {"timing", "signals", "coordinates", "changes", "profile", "trace"}
ValidatorFlags == Flags \ {"trace"}

\* No session of main is followed.
SessionOff ==
    [mode |-> "off", on |-> {}, phase |-> "off", quit |-> FALSE,
     monitor |-> FALSE, reports |-> [f \in ValidatorFlags |-> 0],
     trace_time |-> 0, remaining_trace_clocks |-> 0, sim_clocks |-> 0,
     edges |-> 0]

\* ------------------------------------------------------------ decoder
\* Mutant of vga2bit_to_8bit: the left-shift approximation (x64).
vga2bit_shift6(val) == (val * 64) % 256

\* constexpr uint8_t vga2bit_to_8bit(uint8_t val) { return val * 85; }
vga2bit_to_8bit(val) == (val * 85) % 256

\* (color >> shift) & 0b11
Channel(color, shift) == (color \div (2 ^ shift)) % 4

\* (vpos >= 0 && vpos < V_RES) ? (vpos * H_RES) << 2 : -1
RowBase(v) == IF v >= 0 /\ v < V_RES THEN (v * H_RES) * 4 ELSE -1

\* Mutant of EntryRowBase: the row base is not recomputed from vpos on entry.
EntryRowBaseBlank(v) == -1

\* row_base on entry of simulate_frame
EntryRowBase(v) == RowBase(v)

\* Mutant of FrameStart: either sync low resynchronizes.
FrameStartEither(s) == ~s.hsync \/ ~s.vsync

\* !top->hsync && !top->vsync
FrameStart(s) == ~s.hsync /\ ~s.vsync

\* Mutant of Resync: the frame start resets the column only.
ResyncColumnOnly(s, h, v, rb) ==
    IF ~s.hsync /\ ~s.vsync THEN [hpos |-> -H_BP, vpos |-> v, row_base |-> rb]
                            ELSE [hpos |-> h, vpos |-> v, row_base |-> rb]

\* The position and row base after the frame-start test of an edge.
Resync(s, h, v, rb) ==
    IF FrameStart(s) THEN [hpos |-> -H_BP, vpos |-> -V_BP, row_base |-> -1]
                     ELSE [hpos |-> h, vpos |-> v, row_base |-> rb]

\* Mutant of WriteEnabled: the right edge of the active width is not tested.
WriteEnabledNoRightEdge(h, rb) == rb >= 0 /\ h >= 0

\* The guard of the store: row_base >= 0 and hpos inside the active width.
\* coord_validator is null, so coords_valid stays true.
WriteEnabled(h, rb) == rb >= 0 /\ h >= 0 /\ h < H_RES

\* The four stores fb[idx .. idx+3], as index -> byte.
PixelStores(s, h, rb) ==
    LET idx == rb + h * 4
        color == s.rrggbb
    IN  (idx     :> vga2bit_to_8bit(Channel(color, 0))) @@
        (idx + 1 :> vga2bit_to_8bit(Channel(color, 2))) @@
        (idx + 2 :> vga2bit_to_8bit(Channel(color, 4))) @@
        (idx + 3 :> 255)

\* Mutant of Advance: the wrap tests use > instead of >=.
AdvanceLate(h, v, rb) ==
    IF h + 1 > H_RES + H_FP + H_SYNC
    THEN IF v + 1 > V_RES + V_FP + V_SYNC
         THEN [hpos |-> -H_BP, vpos |-> -V_BP, row_base |-> -1]
         ELSE [hpos |-> -H_BP, vpos |-> v + 1,
               row_base |-> IF v + 1 >= 0 /\ v + 1 < V_RES
                            THEN ((v + 1) * H_RES) * 4 ELSE -1]
    ELSE [hpos |-> h + 1, vpos |-> v, row_base |-> rb]

\* Mutant of Advance: the row base is not updated when a new row begins.
AdvanceStaleRow(h, v, rb) ==
    IF h + 1 >= H_RES + H_FP + H_SYNC
    THEN IF v + 1 >= V_RES + V_FP + V_SYNC
         THEN [hpos |-> -H_BP, vpos |-> -V_BP, row_base |-> -1]
         ELSE [hpos |-> -H_BP, vpos |-> v + 1, row_base |-> rb]
    ELSE [hpos |-> h + 1, vpos |-> v, row_base |-> rb]

\* Position tracking with wraparound: ++hpos, ++vpos, row_base update.
Advance(h, v, rb) ==
    IF h + 1 >= H_RES + H_FP + H_SYNC
    THEN IF v + 1 >= V_RES + V_FP + V_SYNC
         THEN [hpos |-> -H_BP, vpos |-> -V_BP, row_base |-> -1]
         ELSE [hpos |-> -H_BP, vpos |-> v + 1, row_base |-> RowBase(v + 1)]
    ELSE [hpos |-> h + 1, vpos |-> v, row_base |-> rb]

\* Mutant of FrameEnd: every sample with vsync high ends a frame.
FrameEndLevel(s, pv) == s.vsync

\* change_tracker && top->vsync && !prev_vsync, with the tracker attached
FrameEnd(s, pv) == s.vsync /\ ~pv

\* One iteration of the loop of simulate_frame on decoder state d and sample
\* s.  A store outside the buffer is undefined behaviour: it is kept in wr,
\* where the frame condition sees it, and leaves the modelled bytes alone.
EdgeStep(d, s) ==
    LET r == Resync(s, d.hpos, d.vpos, d.row_base)
        st == IF WriteEnabled(r.hpos, r.row_base)
              THEN PixelStores(s, r.hpos, r.row_base)
              ELSE << >>
        a == Advance(r.hpos, r.vpos, r.row_base)
    IN  [hpos |-> a.hpos, vpos |-> a.vpos, row_base |-> a.row_base,
         fb |-> [i \in DOMAIN d.fb |->
                    IF i \in DOMAIN st THEN st[i] ELSE d.fb[i]],
         prev_vsync |-> s.vsync,
         wr |-> DOMAIN st,
         frame_end |-> FrameEnd(s, d.prev_vsync)]

Decoder == [hpos |-> hpos, vpos |-> vpos, row_base |-> row_base, fb |-> fb,
            prev_vsync |-> prev_vsync]

\* main: framebuffer cleared, hpos = -H_BP, vpos = -V_BP, no call active.
DecoderInit ==
    /\ top = [hsync |-> TRUE, vsync |-> TRUE, activevideo |-> FALSE, rrggbb |-> 0]
    /\ fb = [i \in 0 .. FB_SIZE - 1 |-> 0]
    /\ hpos = -H_BP
    /\ vpos = -V_BP
    /\ row_base = -1
    /\ prev_vsync = TRUE
    /\ clocks = 0
    /\ wr = {}
    /\ frame_end = FALSE
    /\ ref = [hpos |-> -H_BP, vpos |-> -V_BP, row_base |-> EntryRowBase(-V_BP),
              fb |-> [i \in 0 .. FB_SIZE - 1 |-> 0], prev_vsync |-> TRUE,
              wr |-> {}, frame_end |-> FALSE]

\* main calls simulate_frame(top, fb, hpos, vpos, n): the entry code.
Enter(n) ==
    /\ clocks = 0
    /\ clocks' = n
    /\ row_base' = EntryRowBase(vpos)
    /\ UNCHANGED <<top, fb, hpos, vpos, prev_vsync, wr, frame_end, ref>>
    /\ UNCHANGED <<mon, gen, meas, sess>>
    /\ UNCHANGED validatorVars

\* One loop iteration: eval() yields sample s, which is then decoded.  The
\* call returns after its last iteration, which ends row_base's lifetime.
Edge(s) ==
    /\ clocks > 0
    /\ LET d == EdgeStep(Decoder, s)
       IN  /\ top' = s
           /\ hpos' = d.hpos
           /\ vpos' = d.vpos
           /\ fb' = d.fb
           /\ prev_vsync' = d.prev_vsync
           /\ wr' = d.wr
           /\ frame_end' = d.frame_end
           /\ clocks' = clocks - 1
           /\ row_base' = IF clocks = 1 THEN -1 ELSE d.row_base
    /\ ref' = EdgeStep(ref, s)
    /\ UNCHANGED <<mon, gen, meas, sess>>
    /\ UNCHANGED validatorVars

\* ------------------------------------------------------------ TimingMonitor
\* static constexpr int TOLERANCE = 1
TOLERANCE == 1

\* Mutant of within_tolerance: no tolerance, an exact match is required.
within_exact(measured, expected) == measured = expected

\* bool within_tolerance(int measured, int expected)
within_tolerance(measured, expected) ==
    measured >= expected - TOLERANCE /\ measured <= expected + TOLERANCE

\* The member initializers of class TimingMonitor.
MonitorNew ==
    [h_counter |-> 0, v_counter |-> 0,
     hsync_pulse_width |-> 0, vsync_pulse_lines |-> 0,
     h_active_width |-> 0, v_active_lines |-> 0,
     prev_hsync |-> TRUE, prev_vsync |-> TRUE,
     in_hsync_pulse |-> FALSE, in_vsync_pulse |-> FALSE,
     hsync_seen |-> FALSE, vsync_seen |-> FALSE,
     frame_complete |-> FALSE, first_sample |-> TRUE,
     hsync_errors |-> 0, vsync_errors |-> 0,
     h_total_errors |-> 0, v_total_errors |-> 0,
     h_active_errors |-> 0, v_active_errors |-> 0,
     silent_mode |-> FALSE,
     emitted |-> {}]

\* fprintf(stderr, "WARNING: ...") of a failed check, unless silent_mode.
MonEmit(m, failed, line) == IF failed /\ ~m.silent_mode THEN {line} ELSE {}

\* Mutant of TickFirst: the first sample does not initialize the edge
\* detector, which keeps the levels the constructor assumed.
TickFirstBlind(m, s) == [m EXCEPT !.first_sample = FALSE, !.emitted = {}]

\* if (first_sample) { prev_hsync = hsync; prev_vsync = vsync; ... return; }
TickFirst(m, s) ==
    [m EXCEPT !.prev_hsync = s.hsync, !.prev_vsync = s.vsync,
              !.first_sample = FALSE, !.emitted = {}]

\* Mutant of VFall: the first falling edge already completes a frame.
VFallEager(m) ==
    [m EXCEPT !.vsync_seen = TRUE, !.frame_complete = TRUE, !.silent_mode = TRUE,
              !.v_counter = 0, !.v_active_lines = 0,
              !.in_vsync_pulse = TRUE, !.vsync_pulse_lines = 0]

\* if (v_fall) { ... }: validate the finished frame, then reset its counters.
VFall(m) ==
    LET checked ==
            IF m.vsync_seen
            THEN [m EXCEPT
                    !.v_total_errors =
                        IF ~within_tolerance(m.v_counter, V_TOTAL)
                        THEN @ + 1 ELSE @,
                    !.v_active_errors =
                        IF m.v_active_lines > 0 /\
                           ~within_tolerance(m.v_active_lines, V_RES)
                        THEN @ + 1 ELSE @,
                    !.emitted =
                        @ \cup MonEmit(m, ~within_tolerance(m.v_counter, V_TOTAL),
                                       "v_total")
                          \cup MonEmit(m, m.v_active_lines > 0 /\
                                          ~within_tolerance(m.v_active_lines, V_RES),
                                       "v_active"),
                    !.frame_complete = TRUE,
                    !.silent_mode = TRUE]
            ELSE [m EXCEPT !.vsync_seen = TRUE]
    IN  [checked EXCEPT !.v_counter = 0, !.v_active_lines = 0,
                        !.in_vsync_pulse = TRUE, !.vsync_pulse_lines = 0]

\* if (v_rise) { ... }: validate the vsync pulse width, in lines.
VRise(m) ==
    [m EXCEPT !.in_vsync_pulse = FALSE,
              !.vsync_errors =
                  IF m.vsync_seen /\ ~within_tolerance(m.vsync_pulse_lines, V_SYNC)
                  THEN @ + 1 ELSE @,
              !.emitted =
                  @ \cup MonEmit(m, m.vsync_seen /\
                                    ~within_tolerance(m.vsync_pulse_lines, V_SYNC),
                                 "vsync")]

\* Mutant of HFall: the active width of a line is validated even when no
\* active sample was seen in it.
HFallZeroActive(m, s) ==
    LET checked ==
            IF m.hsync_seen
            THEN [m EXCEPT
                    !.h_total_errors =
                        IF ~within_tolerance(m.h_counter, H_TOTAL)
                        THEN @ + 1 ELSE @,
                    !.h_active_errors =
                        IF ~within_tolerance(m.h_active_width, H_RES)
                        THEN @ + 1 ELSE @,
                    !.v_counter = @ + 1,
                    !.v_active_lines = IF m.h_active_width > 0 THEN @ + 1 ELSE @,
                    !.vsync_pulse_lines = IF ~s.vsync THEN @ + 1 ELSE @]
            ELSE [m EXCEPT !.hsync_seen = TRUE]
    IN  [checked EXCEPT !.h_counter = 0, !.h_active_width = 0,
                        !.in_hsync_pulse = TRUE, !.hsync_pulse_width = 0]

\* if (h_fall) { ... }: validate the finished line, count it, reset.
HFall(m, s) ==
    LET checked ==
            IF m.hsync_seen
            THEN [m EXCEPT
                    !.h_total_errors =
                        IF ~within_tolerance(m.h_counter, H_TOTAL)
                        THEN @ + 1 ELSE @,
                    !.h_active_errors =
                        IF m.h_active_width > 0 /\
                           ~within_tolerance(m.h_active_width, H_RES)
                        THEN @ + 1 ELSE @,
                    !.emitted =
                        @ \cup MonEmit(m, ~within_tolerance(m.h_counter, H_TOTAL),
                                       "h_total")
                          \cup MonEmit(m, m.h_active_width > 0 /\
                                          ~within_tolerance(m.h_active_width, H_RES),
                                       "h_active"),
                    !.v_counter = @ + 1,
                    !.v_active_lines = IF m.h_active_width > 0 THEN @ + 1 ELSE @,
                    !.vsync_pulse_lines = IF ~s.vsync THEN @ + 1 ELSE @]
            ELSE [m EXCEPT !.hsync_seen = TRUE]
    IN  [checked EXCEPT !.h_counter = 0, !.h_active_width = 0,
                        !.in_hsync_pulse = TRUE, !.hsync_pulse_width = 0]

\* Mutant of HRise: a silent monitor does not count the width error either.
HRiseSilentSkips(m) ==
    [m EXCEPT !.in_hsync_pulse = FALSE,
              !.hsync_errors =
                  IF m.hsync_seen /\ ~m.silent_mode /\
                     ~within_tolerance(m.hsync_pulse_width, H_SYNC)
                  THEN @ + 1 ELSE @,
              !.emitted =
                  @ \cup MonEmit(m, m.hsync_seen /\
                                    ~within_tolerance(m.hsync_pulse_width, H_SYNC),
                                 "hsync")]

\* if (h_rise) { ... }: validate the hsync pulse width, in clocks.
HRise(m) ==
    [m EXCEPT !.in_hsync_pulse = FALSE,
              !.hsync_errors =
                  IF m.hsync_seen /\ ~within_tolerance(m.hsync_pulse_width, H_SYNC)
                  THEN @ + 1 ELSE @,
              !.emitted =
                  @ \cup MonEmit(m, m.hsync_seen /\
                                    ~within_tolerance(m.hsync_pulse_width, H_SYNC),
                                 "hsync")]

\* The per-cycle counters and the previous states, updated last.
TickCount(m, s) ==
    [m EXCEPT !.h_counter = @ + 1,
              !.hsync_pulse_width = IF ~s.hsync THEN @ + 1 ELSE @,
              !.h_active_width = IF s.activevideo THEN @ + 1 ELSE @,
              !.prev_hsync = s.hsync,
              !.prev_vsync = s.vsync]

\* Mutant of Tick: the hsync edges are processed before the vsync edges.
TickHsyncFirst(m, s) ==
    IF m.first_sample THEN TickFirst(m, s)
    ELSE LET h_fall == ~s.hsync /\ m.prev_hsync
             h_rise == s.hsync /\ ~m.prev_hsync
             v_fall == ~s.vsync /\ m.prev_vsync
             v_rise == s.vsync /\ ~m.prev_vsync
             m0 == [m EXCEPT !.emitted = {}]
             m1 == IF h_fall THEN HFall(m0, s) ELSE m0
             m2 == IF h_rise THEN HRise(m1) ELSE m1
             m3 == IF v_fall THEN VFall(m2) ELSE m2
             m4 == IF v_rise THEN VRise(m3) ELSE m3
         IN  TickCount(m4, s)

\* void tick(bool hsync, bool vsync, bool activevideo): vsync edges first,
\* hsync edges second, counters last.  emitted is what this call writes.
Tick(m, s) ==
    IF m.first_sample THEN TickFirst(m, s)
    ELSE LET h_fall == ~s.hsync /\ m.prev_hsync
             h_rise == s.hsync /\ ~m.prev_hsync
             v_fall == ~s.vsync /\ m.prev_vsync
             v_rise == s.vsync /\ ~m.prev_vsync
             m0 == [m EXCEPT !.emitted = {}]
             m1 == IF v_fall THEN VFall(m0) ELSE m0
             m2 == IF v_rise THEN VRise(m1) ELSE m1
             m3 == IF h_fall THEN HFall(m2, s) ELSE m2
             m4 == IF h_rise THEN HRise(m3) ELSE m3
         IN  TickCount(m4, s)

\* The six error counters.
ErrorCounts(m) ==
    [hsync |-> m.hsync_errors, vsync |-> m.vsync_errors,
     h_total |-> m.h_total_errors, v_total |-> m.v_total_errors,
     h_active |-> m.h_active_errors, v_active |-> m.v_active_errors]

\* Mutant of Report: the PASS test leaves out the vsync width errors.
ReportNoVsync(m) ==
    IF ~m.frame_complete
    THEN [verdict |-> "INCOMPLETE", lines |-> {}]
    ELSE IF m.hsync_errors = 0 /\ m.h_total_errors = 0 /\
            m.v_total_errors = 0 /\ m.h_active_errors = 0 /\ m.v_active_errors = 0
         THEN [verdict |-> "PASS", lines |-> {}]
         ELSE [verdict |-> "FAIL",
               lines |-> {<<k, ErrorCounts(m)[k]>> :
                            k \in {c \in DOMAIN ErrorCounts(m) : ErrorCounts(m)[c] > 0}}]

\* void report(): the verdict line and the per-category lines printed.
Report(m) ==
    IF ~m.frame_complete
    THEN [verdict |-> "INCOMPLETE", lines |-> {}]
    ELSE IF m.hsync_errors = 0 /\ m.vsync_errors = 0 /\ m.h_total_errors = 0 /\
            m.v_total_errors = 0 /\ m.h_active_errors = 0 /\ m.v_active_errors = 0
         THEN [verdict |-> "PASS", lines |-> {}]
         ELSE [verdict |-> "FAIL",
               lines |-> {<<k, ErrorCounts(m)[k]>> :
                            k \in {c \in DOMAIN ErrorCounts(m) : ErrorCounts(m)[c] > 0}}]

\* bool has_errors() const
has_errors(m) ==
    m.hsync_errors > 0 \/ m.vsync_errors > 0 \/ m.h_total_errors > 0 \/
    m.v_total_errors > 0 \/ m.h_active_errors > 0 \/ m.v_active_errors > 0

\* bool is_complete() const
is_complete(m) == m.frame_complete

\* ------------------------------------------------------------ SyncValidator
\* static constexpr int TOLERANCE = 2 (SyncValidator's own)
SYNC_TOLERANCE == 2

\* PulseTracker {pulse_width, since_last_edge, expected_width, error_count,
\* in_pulse} as the constructor fills it.
PulseTracker(expected) ==
    [pulse_width |-> 0, since_last_edge |-> 0, expected_width |-> expected,
     error_count |-> 0, in_pulse |-> FALSE]

\* The member initializers and the constructor of class SyncValidator;
\* emitted holds the diagnostics the last tick wrote to stderr.
SyncValidatorNew ==
    [hsync_state |-> PulseTracker(H_SYNC), vsync_state |-> PulseTracker(V_SYNC),
     est_hc |-> 0, est_vc |-> 0, first_tick |-> TRUE, silent_mode |-> FALSE,
     prev_hsync |-> TRUE, prev_vsync |-> TRUE,
     hsync_seen |-> FALSE, vsync_seen |-> FALSE,
     emitted |-> {}]

\* if (first_tick) { prev_hsync = hsync; prev_vsync = vsync; ... return; }
SyncTickFirst(v, hsync, vsync) ==
    [v EXCEPT !.prev_hsync = hsync, !.prev_vsync = vsync, !.first_tick = FALSE,
              !.emitted = {}]

\* fprintf(stderr, ...) unless silent_mode.
SyncEmit(v, line) == IF v.silent_mode THEN v.emitted ELSE v.emitted \cup {line}

\* if (v_fall) { ... }: glitch check against since_last_edge, then reset.
SyncVFall(v) ==
    LET glitch == v.vsync_seen /\
                  v.vsync_state.since_last_edge < V_SYNC * H_TOTAL - SYNC_TOLERANCE
    IN  [v EXCEPT
           !.vsync_state = [@ EXCEPT !.in_pulse = TRUE,
                                     !.pulse_width = 0,
                                     !.error_count = IF glitch THEN @ + 1 ELSE @,
                                     !.since_last_edge = 0],
           !.emitted = IF glitch THEN SyncEmit(v, "VSYNC GLITCH") ELSE @,
           !.vsync_seen = TRUE,
           !.est_vc = 0]

\* Mutant of SyncVRise: the validator stops counting once it is silent.
SyncVRiseSilentStops(v) ==
    LET pulse_lines == v.vsync_state.pulse_width \div H_TOTAL
        bad == pulse_lines < V_SYNC - SYNC_TOLERANCE \/
               pulse_lines > V_SYNC + SYNC_TOLERANCE
    IN  [v EXCEPT
           !.vsync_state = [@ EXCEPT !.in_pulse = FALSE,
                                     !.error_count =
                                         IF bad /\ ~v.silent_mode THEN @ + 1 ELSE @],
           !.emitted = IF bad THEN SyncEmit(v, "VSYNC WIDTH ERROR") ELSE @,
           !.silent_mode = TRUE]

\* if (v_rise) { ... }: pulse width in whole lines, then silence.
SyncVRise(v) ==
    LET pulse_lines == v.vsync_state.pulse_width \div H_TOTAL
        bad == pulse_lines < V_SYNC - SYNC_TOLERANCE \/
               pulse_lines > V_SYNC + SYNC_TOLERANCE
    IN  [v EXCEPT
           !.vsync_state = [@ EXCEPT !.in_pulse = FALSE,
                                     !.error_count = IF bad THEN @ + 1 ELSE @],
           !.emitted = IF bad THEN SyncEmit(v, "VSYNC WIDTH ERROR") ELSE @,
           !.silent_mode = TRUE]

\* Mutant of SyncHFall: the glitch window is H_TOTAL - TOLERANCE inclusive.
SyncHFallInclusive(v) ==
    LET glitch == v.hsync_seen /\
                  v.hsync_state.since_last_edge <= H_TOTAL - SYNC_TOLERANCE /\
                  v.hsync_state.since_last_edge > 0
    IN  [v EXCEPT
           !.hsync_state = [@ EXCEPT !.in_pulse = TRUE,
                                     !.pulse_width = 0,
                                     !.error_count = IF glitch THEN @ + 1 ELSE @,
                                     !.since_last_edge = 0],
           !.emitted = IF glitch THEN SyncEmit(v, "HSYNC GLITCH") ELSE @,
           !.hsync_seen = TRUE,
           !.est_hc = 0,
           !.est_vc = @ + 1]

\* if (h_fall) { ... }: glitch check against since_last_edge, then reset and
\* count the line.
SyncHFall(v) ==
    LET glitch == v.hsync_seen /\
                  v.hsync_state.since_last_edge < H_TOTAL - SYNC_TOLERANCE /\
                  v.hsync_state.since_last_edge > 0
    IN  [v EXCEPT
           !.hsync_state = [@ EXCEPT !.in_pulse = TRUE,
                                     !.pulse_width = 0,
                                     !.error_count = IF glitch THEN @ + 1 ELSE @,
                                     !.since_last_edge = 0],
           !.emitted = IF glitch THEN SyncEmit(v, "HSYNC GLITCH") ELSE @,
           !.hsync_seen = TRUE,
           !.est_hc = 0,
           !.est_vc = @ + 1]

\* if (h_rise) { ... }: pulse width in clocks.
SyncHRise(v) ==
    LET bad == v.hsync_state.pulse_width < H_SYNC - SYNC_TOLERANCE \/
               v.hsync_state.pulse_width > H_SYNC + SYNC_TOLERANCE
    IN  [v EXCEPT
           !.hsync_state = [@ EXCEPT !.in_pulse = FALSE,
                                     !.error_count = IF bad THEN @ + 1 ELSE @],
           !.emitted = IF bad THEN SyncEmit(v, "HSYNC WIDTH ERROR") ELSE @]

\* "Update counters", "Wraparound estimation", "Update previous states".
SyncCount(v, hsync, vsync) ==
    LET hc == v.est_hc + 1
    IN  [v EXCEPT
           !.est_hc = IF hc >= H_TOTAL THEN 0 ELSE hc,
           !.est_vc = IF @ >= V_TOTAL THEN 0 ELSE @,
           !.hsync_state =
               [@ EXCEPT !.since_last_edge = @ + 1,
                         !.pulse_width = IF v.hsync_state.in_pulse THEN @ + 1 ELSE @],
           !.vsync_state =
               [@ EXCEPT !.pulse_width = IF v.vsync_state.in_pulse THEN @ + 1 ELSE @],
           !.prev_hsync = hsync,
           !.prev_vsync = vsync]

\* void SyncValidator::tick(bool hsync, bool vsync)
SyncTick(v, hsync, vsync) ==
    IF v.first_tick THEN SyncTickFirst(v, hsync, vsync)
    ELSE LET h_fall == ~hsync /\ v.prev_hsync
             h_rise == hsync /\ ~v.prev_hsync
             v_fall == ~vsync /\ v.prev_vsync
             v_rise == vsync /\ ~v.prev_vsync
             v0 == [v EXCEPT !.emitted = {}]
             v1 == IF v_fall THEN SyncVFall(v0) ELSE v0
             v2 == IF v_rise THEN SyncVRise(v1) ELSE v1
             v3 == IF h_fall THEN SyncHFall(v2) ELSE v2
             v4 == IF h_rise THEN SyncHRise(v3) ELSE v3
         IN  SyncCount(v4, hsync, vsync)

\* void SyncValidator::report() const
SyncReport(v) ==
    IF v.hsync_state.error_count = 0 /\ v.vsync_state.error_count = 0
    THEN [verdict |-> "PASS", lines |-> {}]
    ELSE [verdict |-> "FAIL",
          lines |-> (IF v.hsync_state.error_count > 0
                     THEN {<<"hsync", v.hsync_state.error_count>>} ELSE {}) \cup
                    (IF v.vsync_state.error_count > 0
                     THEN {<<"vsync", v.vsync_state.error_count>>} ELSE {})]

\* bool SyncValidator::has_errors() const
sync_has_errors(v) ==
    v.hsync_state.error_count > 0 \/ v.vsync_state.error_count > 0

\* int SyncValidator::get_total_errors() const
get_total_errors(v) == v.hsync_state.error_count + v.vsync_state.error_count

\* ------------------------------------------------------------ signal source
\* The source is outside the program.  It is modelled in three modes: "any"
\* emits arbitrary samples, at most MaxTicks of them; "periodic" emits the
\* drift-free signal of the video mode from an arbitrary point of the frame,
\* with at most one sync pulse whose trailing edge is moved; "overscan"
\* emits the syncs of the video mode with the active columns of every line
\* of the frame marked active, the blanked lines included, and at most once
\* leaves out a few samples or a few whole lines at the start of a line.
MaxTicks == 6

MonSamples == [hsync : BOOLEAN, vsync : BOOLEAN, activevideo : BOOLEAN]

\* Samples of one frame, and the count at which the tick counter saturates.
FrameTicks == H_TOTAL * V_TOTAL
TickCap == 2 * FrameTicks + 1

\* First column of the hsync pulse and first line of the vsync pulse.
HSyncStart == H_RES + H_FP
VSyncStart == V_RES + V_FP

\* The column at which vsync toggles: the line start, or the hsync fall.
Alignments == {0, HSyncStart}

\* The width shifts tried: exactly the tolerance, and one more, both ways.
Deltas == {-(TOLERANCE + 1), -TOLERANCE, TOLERANCE, TOLERANCE + 1}

NoPert == [state |-> "idle", sig |-> "-", delta |-> 0, low |-> 0, high |-> 0,
           seen |-> FALSE]

\* The line the vsync generator is in at column h of line v.
VLine(h, v, align) == IF h >= align THEN v ELSE (v + V_TOTAL - 1) % V_TOTAL

NomHsyncLow(h) == HSyncStart <= h /\ h < HSyncStart + H_SYNC
NomVsyncLow(h, v, align) ==
    VSyncStart <= VLine(h, v, align) /\ VLine(h, v, align) < VSyncStart + V_SYNC

\* The overscanned source before and after it has left samples out.
OverscanModes == {"overscan", "overscan-cut"}

\* The numbers of samples, or of lines, left out: exactly the tolerance, and
\* one more.
Cuts == {TOLERANCE, TOLERANCE + 1}

\* The sample of the periodic source at its point g.h, g.v.  A pulse being
\* perturbed is low for its low count, then high for its high count.
Emit(g) ==
    LET forced(sig) == g.pert.state = "armed" /\ g.pert.sig = sig
    IN  [hsync |-> IF forced("h") THEN g.pert.low = 0 ELSE ~NomHsyncLow(g.h),
         vsync |-> IF forced("v") THEN g.pert.low = 0
                   ELSE ~NomVsyncLow(g.h, g.v, g.align),
         activevideo |-> g.h < H_RES /\ (g.v < V_RES \/ g.mode \in OverscanModes)]

\* The pulses that start at the source's point and may be perturbed there.
PulseStarts(g) ==
    IF g.pert.state # "idle" THEN {}
    ELSE (IF g.h = HSyncStart THEN {"h"} ELSE {}) \cup
         (IF g.h = g.align /\ VLine(g.h, g.v, g.align) = VSyncStart
          THEN {"v"} ELSE {})

\* The pulse sig starting now gets width nominal + delta (hsync in samples,
\* vsync in lines); seen records that its falling edge follows a fed sample.
Arm(g, sig, delta) ==
    LET unit == IF sig = "h" THEN 1 ELSE H_TOTAL
        width == IF sig = "h" THEN H_SYNC ELSE V_SYNC
    IN  [g EXCEPT !.pert = [state |-> "armed", sig |-> sig, delta |-> delta,
                            low |-> (width + delta) * unit,
                            high |-> Max(1, (-delta) * unit),
                            seen |-> g.ticks > 0]]

\* The source after emitting sample s: the perturbation counts down, the
\* point moves on, the fed samples and observed vsync falls are counted.
\* ticks counts the samples of the drift-free signal and saturates at
\* TickCap; once a pulse is perturbed only ticks > 0 is still read.
SourceStep(g, s) ==
    LET p == g.pert
        p1 == IF p.state # "armed" THEN p
              ELSE IF p.low > 0 THEN [p EXCEPT !.low = @ - 1]
              ELSE IF p.high > 1 THEN [p EXCEPT !.high = @ - 1]
              ELSE [p EXCEPT !.high = 0, !.state = "done"]
        clean == p1.state = "idle"
    IN  [g EXCEPT
           !.pert = p1,
           !.h = IF g.mode # "any" THEN (g.h + 1) % H_TOTAL ELSE 0,
           !.v = IF g.mode # "any" /\ g.h + 1 = H_TOTAL
                 THEN (g.v + 1) % V_TOTAL ELSE g.v,
           !.ticks = IF clean \/ g.mode = "any"
                     THEN (IF g.ticks < TickCap THEN g.ticks + 1 ELSE g.ticks)
                     ELSE 1,
           !.vfalls = IF g.ticks > 0 /\ g.last_vsync /\ ~s.vsync /\ g.vfalls < 2
                      THEN g.vfalls + 1 ELSE g.vfalls,
           !.last_vsync = s.vsync]

SourceInit(mode, h, v, align) ==
    [mode |-> mode, h |-> h, v |-> v, align |-> align, pert |-> NoPert,
     ticks |-> 0, vfalls |-> 0, last_vsync |-> TRUE]

\* The periods and pulses of the fed stream, measured on the samples
\* themselves: the last sample; the falling edges of each sync so far
\* (counted to 2); since the last hsync falling edge, that sample included,
\* the samples (hgap) and the active ones among them (hact); the low samples
\* since hsync last was high (hlow); and, since the last vsync falling edge,
\* that sample included, the lines closed (lines), those of them that had
\* active samples (alines) and those closed while vsync was low (vlowlines).
\* A line is closed by an hsync falling edge that follows an earlier one.
\* vfresh: the stream had had no hsync falling edge when vsync last fell.
MeasNew ==
    [fed |-> FALSE, hsync |-> TRUE, vsync |-> TRUE, hfalls |-> 0, vfalls |-> 0,
     hgap |-> 0, hact |-> 0, hlow |-> 0, lines |-> 0, alines |-> 0,
     vlowlines |-> 0, vfresh |-> FALSE]

MeasStep(o, s) ==
    LET hfall == o.fed /\ o.hsync /\ ~s.hsync
        vfall == o.fed /\ o.vsync /\ ~s.vsync
        closes == hfall /\ o.hfalls >= 1
        started == hfall \/ o.hfalls >= 1
    IN  [fed |-> TRUE, hsync |-> s.hsync, vsync |-> s.vsync,
         hfalls |-> IF hfall /\ o.hfalls < 2 THEN o.hfalls + 1 ELSE o.hfalls,
         vfalls |-> IF vfall /\ o.vfalls < 2 THEN o.vfalls + 1 ELSE o.vfalls,
         hgap |-> IF ~started THEN 0 ELSE (IF hfall THEN 0 ELSE o.hgap) + 1,
         hact |-> IF ~started THEN 0
                  ELSE (IF hfall THEN 0 ELSE o.hact) +
                       (IF s.activevideo THEN 1 ELSE 0),
         hlow |-> IF s.hsync THEN 0 ELSE o.hlow + 1,
         lines |-> (IF vfall THEN 0 ELSE o.lines) + (IF closes THEN 1 ELSE 0),
         alines |-> (IF vfall THEN 0 ELSE o.alines) +
                    (IF closes /\ o.hact > 0 THEN 1 ELSE 0),
         vlowlines |-> (IF vfall THEN 0 ELSE o.vlowlines) +
                       (IF closes /\ ~s.vsync THEN 1 ELSE 0),
         vfresh |-> IF vfall THEN o.hfalls = 0 ELSE o.vfresh]

\* One loop iteration of simulate_frame with only the monitor given:
\* monitor->tick(...) on the sample s the source emits at its point g.
Feed(g, s) ==
    /\ mon' = Tick(mon, s)
    /\ gen' = SourceStep(g, s)
    /\ meas' = MeasStep(meas, s)
    /\ UNCHANGED <<decoderVars, sess>>
    /\ UNCHANGED validatorVars

\* monitor->tick(...) on an arbitrary sample.
FeedAny(s) ==
    /\ gen.mode = "any"
    /\ gen.ticks < MaxTicks
    /\ Feed(gen, s)

\* monitor->tick(...) on the next sample of the periodic signal.
FeedPeriodic ==
    /\ gen.mode = "periodic"
    /\ Feed(gen, Emit(gen))

\* The same, the pulse that starts with this sample being perturbed.
FeedPerturbed(sig, delta) ==
    /\ gen.mode = "periodic"
    /\ sig \in PulseStarts(gen)
    /\ Feed(Arm(gen, sig, delta), Emit(Arm(gen, sig, delta)))

\* The source leaves out the next n samples of the signal.
Cut(g, n) ==
    [g EXCEPT !.h = (g.h + n) % H_TOTAL,
              !.v = (g.v + (g.h + n) \div H_TOTAL) % V_TOTAL,
              !.mode = "overscan-cut"]

\* monitor->tick(...) on the next sample of the overscanned signal.
FeedOverscan ==
    /\ gen.mode \in OverscanModes
    /\ gen.ticks < TickCap
    /\ Feed(gen, Emit(gen))

\* The same, the source having left out d samples (unit 1) or d lines (unit
\* H_TOTAL) at the start of a line.
FeedOverscanCut(d, unit) ==
    /\ gen.mode = "overscan"
    /\ gen.h = 0 /\ gen.ticks > 0
    /\ gen.ticks < TickCap
    /\ Feed(Cut(gen, d * unit), Emit(Cut(gen, d * unit)))

\* ------------------------------------------------------------ validated stream
\* Largest vsync error count up to which the periodic source is followed.
MaxSyncErrors == 2

\* The width shifts tried against SyncValidator's tolerance, and the numbers
\* of samples by which a line is cut short.
SyncDeltas ==
    {-(SYNC_TOLERANCE + 1), -SYNC_TOLERANCE, SYNC_TOLERANCE, SYNC_TOLERANCE + 1}
Slips == {SYNC_TOLERANCE, SYNC_TOLERANCE + 1}

\* The arbitrary samples fed to the validators: the sync lines are free.
SyncSamples == {s \in MonSamples : ~s.activevideo}

Min(a, b) == IF a < b THEN a ELSE b

\* What the fed stream has contained so far: the last sample, the lengths of
\* the current runs of low samples, the samples since the last falling edge
\* of each signal, and how many edges of each kind there have been (counted
\* to 2).
ObsNew ==
    [fed |-> FALSE, hsync |-> TRUE, vsync |-> TRUE, hlow |-> 0, vlow |-> 0,
     hgap |-> 0, vgap |-> 0, hfalls |-> 0, vfalls |-> 0, vrises |-> 0]

ObsStep(o, hsync, vsync) ==
    LET hfall == o.fed /\ o.hsync /\ ~hsync
        vfall == o.fed /\ o.vsync /\ ~vsync
        vrise == o.fed /\ ~o.vsync /\ vsync
    IN  [fed |-> TRUE, hsync |-> hsync, vsync |-> vsync,
         hlow |-> IF hsync THEN 0 ELSE Min(o.hlow + 1, 2 * H_TOTAL),
         vlow |-> IF vsync THEN 0 ELSE Min(o.vlow + 1, 2 * FrameTicks),
         hgap |-> IF hfall THEN 1
                  ELSE IF o.hfalls > 0 THEN Min(o.hgap + 1, 2 * H_TOTAL) ELSE 0,
         vgap |-> IF vfall THEN 1
                  ELSE IF o.vfalls > 0 THEN Min(o.vgap + 1, 2 * FrameTicks) ELSE 0,
         hfalls |-> IF hfall THEN Min(o.hfalls + 1, 2) ELSE o.hfalls,
         vfalls |-> IF vfall THEN Min(o.vfalls + 1, 2) ELSE o.vfalls,
         vrises |-> IF vrise THEN Min(o.vrises + 1, 2) ELSE o.vrises]

\* The source, at the first sample after an hsync pulse, drops the next d
\* samples of the signal: the next hsync falling edge comes d samples early.
Slip(g, d) ==
    [g EXCEPT !.h = (g.h + d) % H_TOTAL,
              !.v = (g.v + (g.h + d) \div H_TOTAL) % V_TOTAL,
              !.pert = [state |-> "done", sig |-> "slip", delta |-> -d,
                        low |-> 0, high |-> 0, seen |-> g.ticks > 0]]

\* One loop iteration of simulate_frame with monitor and validator given:
\* monitor->tick(...), then validator->tick(...), on the sample s the
\* source emits at its point g.
SyncFeed(g, s) ==
    /\ mon' = Tick(mon, s)
    /\ sv' = SyncTick(sv, s.hsync, s.vsync)
    /\ obs' = ObsStep(obs, s.hsync, s.vsync)
    /\ gen' = SourceStep(g, s)
    /\ UNCHANGED <<decoderVars, sess, meas, cv, cvr, ct, shown, prof, profr, encoderVars>>

\* Both ticks on an arbitrary sample.
SyncFeedAny(s) ==
    /\ gen.mode = "any"
    /\ gen.ticks < MaxTicks
    /\ SyncFeed(gen, s)

\* Both ticks on the next sample of the periodic signal.
SyncFeedPeriodic ==
    /\ gen.mode = "periodic"
    /\ sv.vsync_state.error_count < MaxSyncErrors
    /\ SyncFeed(gen, Emit(gen))

\* The same, the pulse that starts with this sample being perturbed.
SyncFeedPerturbed(sig, delta) ==
    /\ gen.mode = "periodic"
    /\ sv.vsync_state.error_count < MaxSyncErrors
    /\ sig \in PulseStarts(gen)
    /\ SyncFeed(Arm(gen, sig, delta), Emit(Arm(gen, sig, delta)))

\* The same, the line this sample belongs to being cut short.
SyncFeedSlip(d) ==
    /\ gen.mode = "periodic"
    /\ sv.vsync_state.error_count < MaxSyncErrors
    /\ gen.pert.state = "idle"
    /\ gen.h = (HSyncStart + H_SYNC) % H_TOTAL
    /\ d < H_TOTAL - H_SYNC
    /\ SyncFeed(Slip(gen, d), Emit(gen))

\* ------------------------------------------------------------ CoordinateValidator
\* static constexpr int ERROR_THRESHOLD = 10
ERROR_THRESHOLD == 10

\* The member initializers of class CoordinateValidator.
CoordinateValidatorNew ==
    [error_count |-> 0, silent_mode |-> FALSE, frame_complete |-> FALSE]

\* Mutant of CoordCheck: a failed check below the threshold is counted
\* even when the validator is silent.
CoordCheckCountsSilent(r, failed, line) ==
    IF ~failed THEN r
    ELSE IF r.st.error_count < ERROR_THRESHOLD
         THEN [r EXCEPT !.st.error_count = @ + 1,
                        !.lines = IF r.st.silent_mode THEN @ ELSE @ \cup {line},
                        !.valid = FALSE]
         ELSE [r EXCEPT !.valid = FALSE]

\* One of the three checks of validate: a failed check is reported and
\* counted unless the validator is silent or at the threshold.
CoordCheck(r, failed, line) ==
    IF ~failed THEN r
    ELSE IF ~r.st.silent_mode /\ r.st.error_count < ERROR_THRESHOLD
         THEN [r EXCEPT !.st.error_count = @ + 1,
                        !.lines = @ \cup {line},
                        !.valid = FALSE]
         ELSE [r EXCEPT !.valid = FALSE]

\* "Check if threshold exceeded".
CoordThreshold(r) ==
    IF r.st.error_count >= ERROR_THRESHOLD /\ ~r.st.silent_mode
    THEN [r EXCEPT !.st.silent_mode = TRUE, !.lines = @ \cup {"threshold"}]
    ELSE r

\* Mutant of validate: the row_base consistency check is left out.
validate_bounds_only(c, h, v, rb) ==
    LET r0 == [st |-> c, valid |-> TRUE, lines |-> {}]
        r1 == CoordCheck(r0, h < 0 \/ h >= H_RES, "hpos")
        r2 == CoordCheck(r1, v < 0 \/ v >= V_RES, "vpos")
    IN  CoordThreshold(r2)

\* bool validate(int hpos, int vpos, int row_base): the object after the
\* call, the value returned and the lines written to stderr.
validate(c, h, v, rb) ==
    LET r0 == [st |-> c, valid |-> TRUE, lines |-> {}]
        r1 == CoordCheck(r0, h < 0 \/ h >= H_RES, "hpos")
        r2 == CoordCheck(r1, v < 0 \/ v >= V_RES, "vpos")
        r3 == CoordCheck(r2, v >= 0 /\ v < V_RES /\ rb # (v * H_RES) * 4,
                         "row_base")
    IN  CoordThreshold(r3)

\* Mutant of mark_frame_complete: the frame is marked, reporting goes on.
mark_frame_complete_loud(c) ==
    IF ~c.frame_complete THEN [c EXCEPT !.frame_complete = TRUE] ELSE c

\* void mark_frame_complete()
mark_frame_complete(c) ==
    IF ~c.frame_complete
    THEN [c EXCEPT !.frame_complete = TRUE, !.silent_mode = TRUE]
    ELSE c

\* void CoordinateValidator::report() const
CoordReport(c) ==
    IF c.error_count = 0
    THEN [verdict |-> "PASS", lines |-> {}]
    ELSE [verdict |-> "FAIL",
          lines |-> {<<"total", c.error_count>>} \cup
                    (IF c.error_count >= ERROR_THRESHOLD
                     THEN {<<"stopped", ERROR_THRESHOLD>>} ELSE {})]

\* bool CoordinateValidator::has_errors() const
coord_has_errors(c) == c.error_count > 0

\* int get_error_count() const
get_error_count(c) == c.error_count

\* The arguments the calls are made with: each coordinate one below, at both
\* ends of, and one above its range; every correct row base, and offsets
\* next to them.
CoordH == {-1, 0, H_RES - 1, H_RES}
CoordV == {-1, 0, V_RES - 1, V_RES}
CoordRowBase == {-1, 0, 4} \cup {RowBase(v) : v \in 0 .. V_RES - 1}

NoCall == [op |-> "none", hpos |-> 0, vpos |-> 0, row_base |-> 0,
           valid |-> TRUE, lines |-> {}, seq |-> 0]

\* coord_validator->validate(hpos, vpos, row_base)
CallValidate(h, v, rb) ==
    /\ cv' = validate(cv, h, v, rb).st
    /\ cvr' = [op |-> "validate", hpos |-> h, vpos |-> v, row_base |-> rb,
               valid |-> validate(cv, h, v, rb).valid,
               lines |-> validate(cv, h, v, rb).lines,
               seq |-> 1 - cvr.seq]
    /\ UNCHANGED <<decoderVars, sess, mon, gen, meas, sv, obs, ct, shown, prof, profr, encoderVars>>

\* coord_validator->mark_frame_complete()
CallMarkFrameComplete ==
    /\ cv' = mark_frame_complete(cv)
    /\ cvr' = [NoCall EXCEPT !.op = "mark_frame_complete", !.seq = 1 - cvr.seq]
    /\ UNCHANGED <<decoderVars, sess, mon, gen, meas, sv, obs, ct, shown, prof, profr, encoderVars>>

\* ------------------------------------------------------------ ChangeTracker
\* static constexpr int TILE_SIZE, scaled down with the video mode.
TILE_SIZE == 1
TILES_X == (H_RES + TILE_SIZE - 1) \div TILE_SIZE
TILES_Y == (V_RES + TILE_SIZE - 1) \div TILE_SIZE
TOTAL_TILES == TILES_X * TILES_Y

\* The value at which a heat_map counter saturates: UINT32_MAX in the code,
\* which is beyond the integers of the model checker, scaled down here.
HEAT_MAX == 2

\* Largest number of diffed frames followed.
MaxTracked == 3

\* The member initializers and the constructor of class ChangeTracker; the
\* bounding box has no initializer and holds whatever junk is.
ChangeTrackerNew(junk) ==
    [prev_framebuffer |-> [i \in 0 .. FB_SIZE - 1 |-> 0],
     change_map |-> [i \in 0 .. H_RES * V_RES - 1 |-> FALSE],
     dirty_tiles |-> [i \in 0 .. TOTAL_TILES - 1 |-> FALSE],
     heat_map |-> [i \in 0 .. H_RES * V_RES - 1 |-> 0],
     total_pixels |-> H_RES * V_RES,
     changed_pixels |-> 0, dirty_tile_count |-> 0, frames_tracked |-> 0,
     first_frame |-> TRUE,
     total_changed_pixels |-> 0,
     min_changed |-> H_RES * V_RES, max_changed |-> 0,
     min_x |-> junk, max_x |-> junk, min_y |-> junk, max_y |-> junk]

\* if (first_frame) { memcpy(...); first_frame = false; return; }
TrackBaseline(c, cur) ==
    [c EXCEPT !.prev_framebuffer = cur, !.first_frame = FALSE]

\* "Reset bounding box and tile dirty flags".
TrackReset(c) ==
    [c EXCEPT !.min_x = H_RES, !.max_x = -1, !.min_y = V_RES, !.max_y = -1,
              !.changed_pixels = 0, !.dirty_tile_count = 0,
              !.dirty_tiles = [i \in 0 .. TOTAL_TILES - 1 |-> FALSE]]

\* Mutant of PixelChanged: the fourth channel is not compared.
PixelChangedBGR(c, cur, byte_idx) ==
    \/ cur[byte_idx] # c.prev_framebuffer[byte_idx]
    \/ cur[byte_idx + 1] # c.prev_framebuffer[byte_idx + 1]
    \/ cur[byte_idx + 2] # c.prev_framebuffer[byte_idx + 2]

\* "Compare all 4 channels (BGRA)" of the pixel at byte_idx.
PixelChanged(c, cur, byte_idx) ==
    \/ cur[byte_idx] # c.prev_framebuffer[byte_idx]
    \/ cur[byte_idx + 1] # c.prev_framebuffer[byte_idx + 1]
    \/ cur[byte_idx + 2] # c.prev_framebuffer[byte_idx + 2]
    \/ cur[byte_idx + 3] # c.prev_framebuffer[byte_idx + 3]

\* Mutant of TrackPixel: the tile index leaves out the tile row.
TrackPixelRowless(c, cur, x, y) ==
    LET pixel_idx == y * H_RES + x
        changed == PixelChanged(c, cur, pixel_idx * 4)
        tile_idx == x \div TILE_SIZE
    IN  IF ~changed THEN [c EXCEPT !.change_map[pixel_idx] = FALSE]
        ELSE [c EXCEPT
                !.change_map[pixel_idx] = TRUE,
                !.changed_pixels = @ + 1,
                !.heat_map[pixel_idx] = IF @ < HEAT_MAX THEN @ + 1 ELSE @,
                !.min_x = IF x < @ THEN x ELSE @,
                !.max_x = IF x > @ THEN x ELSE @,
                !.min_y = IF y < @ THEN y ELSE @,
                !.max_y = IF y > @ THEN y ELSE @,
                !.dirty_tiles[tile_idx] = TRUE,
                !.dirty_tile_count = IF ~c.dirty_tiles[tile_idx] THEN @ + 1 ELSE @]

\* Mutant of TrackPixel: a heat counter at its maximum wraps to 0.
TrackPixelWrap(c, cur, x, y) ==
    LET pixel_idx == y * H_RES + x
        changed == PixelChanged(c, cur, pixel_idx * 4)
        tile_idx == (y \div TILE_SIZE) * TILES_X + x \div TILE_SIZE
    IN  IF ~changed THEN [c EXCEPT !.change_map[pixel_idx] = FALSE]
        ELSE [c EXCEPT
                !.change_map[pixel_idx] = TRUE,
                !.changed_pixels = @ + 1,
                !.heat_map[pixel_idx] = (@ + 1) % (HEAT_MAX + 1),
                !.min_x = IF x < @ THEN x ELSE @,
                !.max_x = IF x > @ THEN x ELSE @,
                !.min_y = IF y < @ THEN y ELSE @,
                !.max_y = IF y > @ THEN y ELSE @,
                !.dirty_tiles[tile_idx] = TRUE,
                !.dirty_tile_count = IF ~c.dirty_tiles[tile_idx] THEN @ + 1 ELSE @]

\* The body of the two loops for the pixel (x, y).
TrackPixel(c, cur, x, y) ==
    LET pixel_idx == y * H_RES + x
        changed == PixelChanged(c, cur, pixel_idx * 4)
        tile_idx == (y \div TILE_SIZE) * TILES_X + x \div TILE_SIZE
    IN  IF ~changed THEN [c EXCEPT !.change_map[pixel_idx] = FALSE]
        ELSE [c EXCEPT
                !.change_map[pixel_idx] = TRUE,
                !.changed_pixels = @ + 1,
                !.heat_map[pixel_idx] = IF @ < HEAT_MAX THEN @ + 1 ELSE @,
                !.min_x = IF x < @ THEN x ELSE @,
                !.max_x = IF x > @ THEN x ELSE @,
                !.min_y = IF y < @ THEN y ELSE @,
                !.max_y = IF y > @ THEN y ELSE @,
                !.dirty_tiles[tile_idx] = TRUE,
                !.dirty_tile_count = IF ~c.dirty_tiles[tile_idx] THEN @ + 1 ELSE @]

\* for (y ...) for (x ...): the pixels from number n on, in raster order.
RECURSIVE TrackLoop(_, _, _)
TrackLoop(c, cur, n) ==
    IF n >= H_RES * V_RES THEN c
    ELSE TrackLoop(TrackPixel(c, cur, n % H_RES, n \div H_RES), cur, n + 1)

\* Mutant of TrackStats: the minimum is replaced by every frame's count.
TrackStatsLastMin(c, cur) ==
    [c EXCEPT !.total_changed_pixels = @ + c.changed_pixels,
              !.min_changed = c.changed_pixels,
              !.max_changed = IF c.changed_pixels > @ THEN c.changed_pixels ELSE @,
              !.prev_framebuffer = cur,
              !.frames_tracked = @ + 1]

\* "Update statistics", "Copy current frame as new baseline".
TrackStats(c, cur) ==
    [c EXCEPT !.total_changed_pixels = @ + c.changed_pixels,
              !.min_changed = IF c.changed_pixels < @ THEN c.changed_pixels ELSE @,
              !.max_changed = IF c.changed_pixels > @ THEN c.changed_pixels ELSE @,
              !.prev_framebuffer = cur,
              !.frames_tracked = @ + 1]

\* Mutant of track: the first frame is diffed like every other.
track_no_baseline(c, cur) == TrackStats(TrackLoop(TrackReset(c), cur, 0), cur)

\* void track(const uint8_t *current_fb)
track(c, cur) ==
    IF c.first_frame THEN TrackBaseline(c, cur)
    ELSE TrackStats(TrackLoop(TrackReset(c), cur, 0), cur)

\* int get_changed_pixels() const, int get_dirty_tile_count() const
get_changed_pixels(c) == c.changed_pixels
get_dirty_tile_count(c) == c.dirty_tile_count

\* Mutant of get_dirty_rect: width and height are the coordinate spans.
get_dirty_rect_span(c) ==
    IF c.changed_pixels = 0 \/ c.max_x < 0
    THEN [ok |-> FALSE, x |-> 0, y |-> 0, w |-> 0, h |-> 0]
    ELSE [ok |-> TRUE, x |-> c.min_x, y |-> c.min_y,
          w |-> c.max_x - c.min_x, h |-> c.max_y - c.min_y]

\* bool get_dirty_rect(int &x, int &y, int &w, int &h) const: the value
\* returned and, when it is true, the rectangle stored.
get_dirty_rect(c) ==
    IF c.changed_pixels = 0 \/ c.max_x < 0
    THEN [ok |-> FALSE, x |-> 0, y |-> 0, w |-> 0, h |-> 0]
    ELSE [ok |-> TRUE, x |-> c.min_x, y |-> c.min_y,
          w |-> c.max_x - c.min_x + 1, h |-> c.max_y - c.min_y + 1]

\* bool is_tile_dirty(int tile_x, int tile_y) const
is_tile_dirty(c, tile_x, tile_y) ==
    IF tile_x < 0 \/ tile_x >= TILES_X \/ tile_y < 0 \/ tile_y >= TILES_Y
    THEN FALSE
    ELSE c.dirty_tiles[tile_y * TILES_X + tile_x]

\* The framebuffers passed to track: one byte value everywhere, or all zero
\* but for one channel of the pixels of a set.  The corners differ in one
\* channel each, a different one per corner.
Solid(b) == [i \in 0 .. FB_SIZE - 1 |-> b]
Dots(ps) == [i \in 0 .. FB_SIZE - 1 |->
                IF \E p \in ps : i = (p[2] * H_RES + p[1]) * 4 + p[3]
                THEN 255 ELSE 0]
Corners ==
    {<<0, 0, 0>>, <<H_RES - 1, 0, 1>>, <<0, V_RES - 1, 2>>,
     <<H_RES - 1, V_RES - 1, 3>>}
Frames ==
    {Solid(0), Solid(255)} \cup {Dots({p}) : p \in Corners} \cup
    {Dots({<<0, 0, 0>>, <<H_RES - 1, V_RES - 1, 3>>}),
     Dots({<<0, 0, 0>>, <<H_RES - 1, 0, 1>>})}

\* The values an uninitialized int of the bounding box is let to hold.
Junk == {-1, 0}

\* change_tracker->track(fb) on the framebuffer f.
Track(f) ==
    /\ ct.frames_tracked < MaxTracked
    /\ ct' = track(ct, f)
    /\ shown' = Append(shown, f)
    /\ UNCHANGED <<decoderVars, sess, mon, gen, meas, sv, obs, cv, cvr, prof, profr, encoderVars>>

\* ------------------------------------------------------------ driver with ChangeTracker
\* One loop iteration of simulate_frame called with a ChangeTracker: on a
\* frame end track(fb) runs on the framebuffer as it stands before this
\* iteration's pixel write.  The number of frame ends followed is bounded.
MaxFrameEnds == 1

EdgeTracked(s) ==
    /\ clocks > 0
    /\ FrameEnd(s, prev_vsync) => Len(shown) < MaxFrameEnds
    /\ LET d == EdgeStep(Decoder, s)
       IN  /\ top' = s
           /\ hpos' = d.hpos
           /\ vpos' = d.vpos
           /\ fb' = d.fb
           /\ prev_vsync' = d.prev_vsync
           /\ wr' = d.wr
           /\ frame_end' = d.frame_end
           /\ clocks' = clocks - 1
           /\ row_base' = IF clocks = 1 THEN -1 ELSE d.row_base
    /\ ref' = EdgeStep(ref, s)
    /\ IF FrameEnd(s, prev_vsync)
       THEN ct' = track(ct, fb) /\ shown' = Append(shown, fb)
       ELSE UNCHANGED <<ct, shown>>
    /\ UNCHANGED <<mon, gen, meas, sess, sv, obs, cv, cvr, prof, profr, encoderVars>>

\* ------------------------------------------------------------ RenderProfiler
\* The number of tick calls followed on one profiler (bound).
MaxClocks == 8

\* The member initializers of the class.
RenderProfilerNew ==
    [total_clocks |-> 0, blank_clocks |-> 0, active_black_clocks |-> 0,
     rendered_clocks |-> 0, frame_complete |-> FALSE]

\* Mutant of ProfilerTick: a black pixel of the active region counts as
\* blanking.
ProfilerTickBlackIsBlank(p, activevideo, rrggbb) ==
    LET q == [p EXCEPT !.total_clocks = @ + 1]
    IN  IF ~activevideo \/ rrggbb = 0 THEN [q EXCEPT !.blank_clocks = @ + 1]
        ELSE [q EXCEPT !.rendered_clocks = @ + 1]

\* void tick(bool activevideo, uint8_t rrggbb).  The counters are uint64_t,
\* which no run of MaxClocks calls can overflow.
ProfilerTick(p, activevideo, rrggbb) ==
    LET q == [p EXCEPT !.total_clocks = @ + 1]
    IN  IF ~activevideo THEN [q EXCEPT !.blank_clocks = @ + 1]
        ELSE IF rrggbb = 0 THEN [q EXCEPT !.active_black_clocks = @ + 1]
        ELSE [q EXCEPT !.rendered_clocks = @ + 1]

\* void mark_frame_complete() of the profiler.
ProfilerMarkFrameComplete(p) == [p EXCEPT !.frame_complete = TRUE]

get_total_clocks(p) == p.total_clocks
get_rendered_clocks(p) == p.rendered_clocks

\* The 6-bit colour port as tick receives it: black, a colour of the
\* decoder's samples and white.
ProfilerColors == {0, 63} \cup ColorCodes

NoTick == [activevideo |-> FALSE, rrggbb |-> 0, calls |-> 0]

CallProfilerTick(activevideo, rrggbb) ==
    /\ prof.total_clocks < MaxClocks
    /\ prof' = ProfilerTick(prof, activevideo, rrggbb)
    /\ profr' = [activevideo |-> activevideo, rrggbb |-> rrggbb,
                 calls |-> profr.calls + 1]
    /\ UNCHANGED <<decoderVars, sess, mon, gen, meas, sv, obs, cv, cvr, ct, shown, encoderVars>>

CallProfilerMark ==
    /\ prof' = ProfilerMarkFrameComplete(prof)
    /\ UNCHANGED <<decoderVars, sess, mon, gen, meas, sv, obs, cv, cvr, ct, shown, profr, encoderVars>>

\* ------------------------------------------------------------ image encoder
\* A uint32_t is the tuple of its eight hexadecimal digits, the most
\* significant first, so that every operation keeps its 32-bit width.
Nibbles == 0 .. 15

XorNib ==
    [a \in Nibbles |-> [b \in Nibbles |->
        ((a + b) % 2) + 2 * (((a \div 2) + (b \div 2)) % 2) +
        4 * (((a \div 4) + (b \div 4)) % 2) + 8 * (((a \div 8) + (b \div 8)) % 2)]]

\* The value n (0 <= n < 2^31) as a uint32_t.
WordOf(n) ==
    <<(n \div 16 ^ 7) % 16, (n \div 16 ^ 6) % 16, (n \div 16 ^ 5) % 16,
      (n \div 16 ^ 4) % 16, (n \div 16 ^ 3) % 16, (n \div 16 ^ 2) % 16,
      (n \div 16) % 16, n % 16>>

WordNot(w) ==
    <<15 - w[1], 15 - w[2], 15 - w[3], 15 - w[4],
      15 - w[5], 15 - w[6], 15 - w[7], 15 - w[8]>>
WordXor(a, b) ==
    <<XorNib[a[1]][b[1]], XorNib[a[2]][b[2]], XorNib[a[3]][b[3]],
      XorNib[a[4]][b[4]], XorNib[a[5]][b[5]], XorNib[a[6]][b[6]],
      XorNib[a[7]][b[7]], XorNib[a[8]][b[8]]>>
WordShr4(w) == <<0, w[1], w[2], w[3], w[4], w[5], w[6], w[7]>>
\* crc ^= buf[i] with buf[i] a uint8_t.
WordXorByte(w, b) ==
    <<w[1], w[2], w[3], w[4], w[5], w[6],
      XorNib[w[7]][b \div 16], XorNib[w[8]][b % 16]>>

\* static const uint32_t crc32_table[16], entry j at index j + 1.
crc32_table ==
    <<<< 0,  0,  0,  0,  0,  0,  0,  0>>,
      << 1, 13, 11,  7,  1,  0,  6,  4>>,
      << 3, 11,  6, 14,  2,  0, 12,  8>>,
      << 2,  6, 13,  9,  3,  0, 10, 12>>,
      << 7,  6, 13, 12,  4,  1,  9,  0>>,
      << 6, 11,  6, 11,  5,  1, 15,  4>>,
      << 4, 13, 11,  2,  6,  1,  5,  8>>,
      << 5,  0,  0,  5,  7,  1,  3, 12>>,
      <<14, 13, 11,  8,  8,  3,  2,  0>>,
      <<15,  0,  0, 15,  9,  3,  4,  4>>,
      <<13,  6, 13,  6, 10,  3, 14,  8>>,
      <<12, 11,  6,  1, 11,  3,  8, 12>>,
      << 9, 11,  6,  4, 12,  2, 11,  0>>,
      << 8,  6, 13,  3, 13,  2, 13,  4>>,
      <<10,  0,  0, 10, 14,  2,  7,  8>>,
      <<11, 13, 11, 13, 15,  2,  1, 12>>>>

\* Mutant of Crc32Step: the table is consulted once per byte.
Crc32StepOnce(crc, byte) ==
    LET x == WordXorByte(crc, byte)
    IN  WordXor(WordShr4(x), crc32_table[x[8] + 1])

\* The body of crc32's loop for one byte.
Crc32Step(crc, byte) ==
    LET x == WordXorByte(crc, byte)
        y == WordXor(WordShr4(x), crc32_table[x[8] + 1])
    IN  WordXor(WordShr4(y), crc32_table[y[8] + 1])

\* crc32's loop over buf[lo .. hi], in index order.  The range is halved
\* and the value r after the first half is computed before the second half
\* starts, which keeps the evaluation shallow for long buffers.
RECURSIVE Crc32Loop(_, _, _, _)
Crc32Loop(crc, buf, lo, hi) ==
    IF lo > hi THEN crc
    ELSE IF lo = hi THEN Crc32Step(crc, buf[lo])
    ELSE LET mid == (lo + hi) \div 2
         IN  CHOOSE v \in {Crc32Loop(r, buf, mid + 1, hi) :
                               r \in {Crc32Loop(crc, buf, lo, mid)}} : TRUE

\* uint32_t crc32(uint32_t crc, const uint8_t *buf, size_t len).
crc32(crc, buf) == WordNot(Crc32Loop(WordNot(crc), buf, 1, Len(buf)))

\* PUT_U32(u): the four bytes of u, the most significant first.
PUT_U32(u) ==
    <<u[1] * 16 + u[2], u[3] * 16 + u[4], u[5] * 16 + u[6], u[7] * 16 + u[8]>>

png_sig == <<137, 80, 78, 71, 13, 10, 26, 10>>
IHDR == <<73, 72, 68, 82>>
IDAT == <<73, 68, 65, 84>>
IEND == <<73, 69, 78, 68>>

\* uint8_t ihdr[13]: BSWAP32 of width and height stored through a uint32_t
\* pointer (on the little-endian hosts the simulator is built for this is
\* the big-endian byte order), then depth 8, colour type 6, 0, 0, 0.
IhdrData(width, height) ==
    PUT_U32(WordOf(width)) \o PUT_U32(WordOf(height)) \o <<8, 6, 0, 0, 0>>

\* Mutant of RawPixel: the four bytes are copied in source order.
RawPixelBGRA(pixels, idx) ==
    <<pixels[idx], pixels[idx + 1], pixels[idx + 2], pixels[idx + 3]>>

\* "Convert BGRA to RGBA": the four bytes appended for the pixel at idx.
RawPixel(pixels, idx) ==
    <<pixels[idx + 2], pixels[idx + 1], pixels[idx], pixels[idx + 3]>>

RECURSIVE RawRow(_, _, _, _)
RawRow(pixels, width, y, x) ==
    IF x >= width THEN <<>>
    ELSE RawPixel(pixels, (y * width + x) * 4) \o RawRow(pixels, width, y, x + 1)

\* The two loops that fill raw_data: a filter byte 0, then the row.
RECURSIVE RawData(_, _, _, _)
RawData(pixels, width, height, y) ==
    IF y >= height THEN <<>>
    ELSE <<0>> \o RawRow(pixels, width, y, 0) \o RawData(pixels, width, height, y + 1)

\* The largest stored block: 65535 in the code, scaled so that images the
\* check can enumerate need more than one block and a length of two
\* non-zero bytes (bound).
MAX_STORED == 257

\* The low 16 bits of ~chunk for a size_t chunk.
NotLow16(chunk) == 65535 - (chunk % 65536)

\* Mutant of StoredBlocks: no block carries the final flag unless it
\* overshoots the data.
RECURSIVE StoredBlocksNoFinal(_, _)
StoredBlocksNoFinal(raw_data, pos) ==
    IF pos >= Len(raw_data) THEN <<>>
    ELSE LET rest == Len(raw_data) - pos
             chunk == IF rest > MAX_STORED THEN MAX_STORED ELSE rest
         IN  <<IF pos + chunk > Len(raw_data) THEN 1 ELSE 0,
               chunk % 256, (chunk \div 256) % 256,
               NotLow16(chunk) % 256, (NotLow16(chunk) \div 256) % 256>>
             \o SubSeq(raw_data, pos + 1, pos + chunk)
             \o StoredBlocksNoFinal(raw_data, pos + chunk)

\* "Write as uncompressed DEFLATE blocks": the while loop from pos on.
RECURSIVE StoredBlocks(_, _)
StoredBlocks(raw_data, pos) ==
    IF pos >= Len(raw_data) THEN <<>>
    ELSE LET rest == Len(raw_data) - pos
             chunk == IF rest > MAX_STORED THEN MAX_STORED ELSE rest
         IN  <<IF pos + chunk >= Len(raw_data) THEN 1 ELSE 0,
               chunk % 256, (chunk \div 256) % 256,
               NotLow16(chunk) % 256, (NotLow16(chunk) \div 256) % 256>>
             \o SubSeq(raw_data, pos + 1, pos + chunk)
             \o StoredBlocks(raw_data, pos + chunk)

ADLER_MOD == 65521

\* Mutant of AdlerStep: s2 sums the bytes instead of the values of s1.
AdlerStepBytes(s, byte) ==
    [s1 |-> (s.s1 + byte) % ADLER_MOD, s2 |-> (s.s2 + byte) % ADLER_MOD]

\* The body of the ADLER32 loop for one byte.
AdlerStep(s, byte) ==
    LET s1 == (s.s1 + byte) % ADLER_MOD
    IN  [s1 |-> s1, s2 |-> (s.s2 + s1) % ADLER_MOD]

\* The ADLER32 loop over raw_data[lo .. hi], in index order (halved as
\* above).
RECURSIVE AdlerLoop(_, _, _, _)
AdlerLoop(s, raw_data, lo, hi) ==
    IF lo > hi THEN s
    ELSE IF lo = hi THEN AdlerStep(s, raw_data[lo])
    ELSE LET mid == (lo + hi) \div 2
         IN  CHOOSE v \in {AdlerLoop(r, raw_data, mid + 1, hi) :
                               r \in {AdlerLoop(s, raw_data, lo, mid)}} : TRUE

\* uint32_t s1 = 1, s2 = 0 and the loop over all of raw_data.
Adler32(raw_data) ==
    AdlerLoop([s1 |-> 1, s2 |-> 0], raw_data, 1, Len(raw_data))

\* uint32_t adler = (s2 << 16) | s1, both below 2^16.
AdlerWord(s) ==
    <<(s.s2 \div 16 ^ 3) % 16, (s.s2 \div 16 ^ 2) % 16, (s.s2 \div 16) % 16,
      s.s2 % 16,
      (s.s1 \div 16 ^ 3) % 16, (s.s1 \div 16 ^ 2) % 16, (s.s1 \div 16) % 16,
      s.s1 % 16>>

\* The buffer idat as handed to PUT_BYTES.
IdatData(raw_data) ==
    <<120, 1>> \o StoredBlocks(raw_data, 0) \o
    PUT_U32(AdlerWord(Adler32(raw_data)))

\* One chunk as the PUT macros write it: length, type, data, CRC of type
\* and data.
Chunk(type, data) ==
    PUT_U32(WordOf(Len(data))) \o type \o data \o
    PUT_U32(crc32(crc32(WordOf(0), type), data))

\* What the destination holds of the bytes handed to fwrite and fclose,
\* none of whose results the code reads: all of them, or the first
\* env.room while the device accepts no more (room < 0: no limit).
Stored(bytes, env) ==
    IF env.room < 0 \/ env.room >= Len(bytes) THEN bytes
    ELSE SubSeq(bytes, 1, env.room)

\* size_t raw_size = height * (1 + width * 4)
raw_size(width, height) == height * (1 + width * 4)

\* Mutant of max_deflate_size: the constant term is left out.
max_deflate_size_bare(rs) == rs + ((rs + 7) \div 8) + ((rs + 63) \div 64)

\* size_t max_deflate_size = raw_size + ((raw_size + 7) >> 3) +
\*                           ((raw_size + 63) >> 6) + 11
max_deflate_size(rs) == rs + ((rs + 7) \div 8) + ((rs + 63) \div 64) + 11

\* static int save_png(filename, pixels, width, height) in the environment
\* env: whether fopen and the two malloc calls succeed and how many bytes
\* the destination accepts.  idat_size is the number of bytes the call has
\* stored into idat, allocated the size idat was allocated with.
save_png(pixels, width, height, env) ==
    LET head == png_sig \o Chunk(IHDR, IhdrData(width, height))
        raw_data == RawData(pixels, width, height, 0)
        allocated == max_deflate_size(raw_size(width, height))
    IN  IF ~env.fopen
        THEN [ret |-> -1, opened |-> FALSE, file |-> <<>>,
              idat_size |-> 0, allocated |-> 0]
        ELSE IF ~env.malloc_idat
        THEN [ret |-> -1, opened |-> TRUE, file |-> Stored(head, env),
              idat_size |-> 0, allocated |-> 0]
        ELSE IF ~env.malloc_raw
        THEN [ret |-> -1, opened |-> TRUE, file |-> Stored(head, env),
              idat_size |-> 2, allocated |-> allocated]
        ELSE [ret |-> 0, opened |-> TRUE,
              file |-> Stored(head \o Chunk(IDAT, IdatData(raw_data)) \o
                              Chunk(IEND, <<>>), env),
              idat_size |-> Len(IdatData(raw_data)), allocated |-> allocated]

\* void save_framebuffer_png(filename, fb, w, h): the value of save_png is
\* dropped, so the caller is told nothing (failed is what it can observe).
save_framebuffer_png(fb_, w, h, env) ==
    LET r == save_png(fb_, w, h, env)
    IN  [opened |-> r.opened, file |-> r.file, failed |-> FALSE,
         idat_size |-> r.idat_size, allocated |-> r.allocated]

\* The images encoded: every size up to MaxDim x MaxDim with four
\* contents, and two single rows of 255s, one filling exactly one stored
\* block and one longer, long enough for both checksum sums to wrap.
MaxDim == 2
LongRow == 64

Flat(w, h, b) == [w |-> w, h |-> h, pixels |-> [i \in 0 .. w * h * 4 - 1 |-> b]]
Ramp(w, h, base) ==
    [w |-> w, h |-> h, pixels |-> [i \in 0 .. w * h * 4 - 1 |-> (base + i) % 256]]

Images ==
    UNION {{Flat(w, h, 0), Flat(w, h, 255), Ramp(w, h, 1), Ramp(w, h, 250)} :
              w \in 1 .. MaxDim, h \in 1 .. MaxDim}
    \cup {Flat(LongRow, 1, 255), Flat(LongRow + 1, 1, 255)}

Healthy == [fopen |-> TRUE, malloc_idat |-> TRUE, malloc_raw |-> TRUE, room |-> -1]

\* The bytes the destination accepts when it is short of space: none, the
\* signature, the signature and the header chunk.
Rooms == {0, 8, 33}

Environments ==
    {Healthy, [Healthy EXCEPT !.fopen = FALSE],
     [Healthy EXCEPT !.malloc_idat = FALSE], [Healthy EXCEPT !.malloc_raw = FALSE]}
    \cup {[Healthy EXCEPT !.room = r] : r \in Rooms}

PngCall(img, env) ==
    [img |-> img, env |-> env, called |-> FALSE, opened |-> FALSE,
     file |-> <<>>, failed |-> FALSE, announced |-> FALSE,
     idat_size |-> 0, allocated |-> 0]

PngIdle == PngCall(Flat(1, 1, 0), Healthy)

\* main: save_framebuffer_png(...) followed by the "Saved frame to" line.
\* Storing beyond the allocated size of idat is undefined: the file may
\* then hold the bytes meant or nothing at all.
SaveFramebufferPng ==
    /\ ~png.called
    /\ LET r == save_framebuffer_png(png.img.pixels, png.img.w, png.img.h, png.env)
       IN  \E f \in (IF r.idat_size > r.allocated THEN {r.file, <<>>} ELSE {r.file}) :
              png' = [png EXCEPT !.called = TRUE, !.opened = r.opened,
                                 !.file = f, !.failed = r.failed,
                                 !.announced = TRUE,
                                 !.idat_size = r.idat_size,
                                 !.allocated = r.allocated]
    /\ UNCHANGED <<decoderVars, sess, mon, gen, meas, sv, obs, cv, cvr, ct, shown, prof, profr, crcv>>

\* The crc32 calls followed: start values and byte strings.
MaxCrcLen == 3
CrcBytes == {0, 1, 73, 255}
CrcStarts ==
    {WordOf(0), WordNot(WordOf(0)), WordOf(305419896), crc32(WordOf(0), IDAT)}

RECURSIVE Strings(_)
Strings(n) ==
    IF n = 0 THEN {<<>>}
    ELSE Strings(n - 1) \cup
         {Append(s, b) : s \in {q \in Strings(n - 1) : Len(q) = n - 1}, b \in CrcBytes}

CrcCall(crc, buf) == [crc |-> crc, buf |-> buf, called |-> FALSE, out |-> WordOf(0)]

CrcIdle == CrcCall(WordOf(0), <<>>)

CallCrc32 ==
    /\ ~crcv.called
    /\ crcv' = [crcv EXCEPT !.called = TRUE, !.out = crc32(crcv.crc, crcv.buf)]
    /\ UNCHANGED <<decoderVars, sess, mon, gen, meas, sv, obs, cv, cvr, ct, shown, prof, profr, png>>

\* ------------------------------------------------------------ driver with CoordinateValidator
\* Mutant of EdgeStepChecked: once the validator has seen a frame start its
\* outcome withholds the stores.
EdgeStepCheckedDrops(d, s, c, attached) ==
    LET r == Resync(s, d.hpos, d.vpos, d.row_base)
        marked == attached /\ FrameStart(s)
        c1 == IF marked THEN mark_frame_complete(c) ELSE c
        called == attached /\ WriteEnabled(r.hpos, r.row_base)
        res == validate(c1, r.hpos, r.vpos, r.row_base)
        coords_valid == ~called \/ (res.valid /\ ~c1.frame_complete)
        st == IF WriteEnabled(r.hpos, r.row_base) /\ coords_valid
              THEN PixelStores(s, r.hpos, r.row_base)
              ELSE << >>
        a == Advance(r.hpos, r.vpos, r.row_base)
    IN  [dec |-> [hpos |-> a.hpos, vpos |-> a.vpos, row_base |-> a.row_base,
                  fb |-> [i \in DOMAIN d.fb |->
                             IF i \in DOMAIN st THEN st[i] ELSE d.fb[i]],
                  prev_vsync |-> s.vsync,
                  wr |-> DOMAIN st,
                  frame_end |-> FrameEnd(s, d.prev_vsync)],
         cv |-> IF called THEN res.st ELSE c1,
         call |-> IF called
                  THEN [op |-> "validate", hpos |-> r.hpos, vpos |-> r.vpos,
                        row_base |-> r.row_base, valid |-> coords_valid,
                        lines |-> res.lines, seq |-> 0]
                  ELSE IF marked THEN [NoCall EXCEPT !.op = "mark_frame_complete"]
                  ELSE NoCall,
         at |-> r]

\* One iteration of the loop of simulate_frame on decoder state d and sample
\* s with the coordinate validator c, which is attached or null: the frame
\* start marks the frame complete; where a write is decided validate is
\* called on the position and row base, and the stores are made only if it
\* returns true.  at is the position and row base the write is decided on.
EdgeStepChecked(d, s, c, attached) ==
    LET r == Resync(s, d.hpos, d.vpos, d.row_base)
        marked == attached /\ FrameStart(s)
        c1 == IF marked THEN mark_frame_complete(c) ELSE c
        called == attached /\ WriteEnabled(r.hpos, r.row_base)
        res == validate(c1, r.hpos, r.vpos, r.row_base)
        coords_valid == ~called \/ res.valid
        st == IF WriteEnabled(r.hpos, r.row_base) /\ coords_valid
              THEN PixelStores(s, r.hpos, r.row_base)
              ELSE << >>
        a == Advance(r.hpos, r.vpos, r.row_base)
    IN  [dec |-> [hpos |-> a.hpos, vpos |-> a.vpos, row_base |-> a.row_base,
                  fb |-> [i \in DOMAIN d.fb |->
                             IF i \in DOMAIN st THEN st[i] ELSE d.fb[i]],
                  prev_vsync |-> s.vsync,
                  wr |-> DOMAIN st,
                  frame_end |-> FrameEnd(s, d.prev_vsync)],
         cv |-> IF called THEN res.st ELSE c1,
         call |-> IF called
                  THEN [op |-> "validate", hpos |-> r.hpos, vpos |-> r.vpos,
                        row_base |-> r.row_base, valid |-> res.valid,
                        lines |-> res.lines, seq |-> 0]
                  ELSE IF marked THEN [NoCall EXCEPT !.op = "mark_frame_complete"]
                  ELSE NoCall,
         at |-> r]

\* The last call an iteration made on the validator, if it made one.
CallRecord(step, last) ==
    IF step.call.op = "none" THEN last
    ELSE [step.call EXCEPT !.seq = 1 - last.seq]

\* One loop iteration of simulate_frame called with a CoordinateValidator
\* (--validate-coordinates) and no other validator.
EdgeChecked(s) ==
    /\ clocks > 0
    /\ LET step == EdgeStepChecked(Decoder, s, cv, TRUE)
           d == step.dec
       IN  /\ top' = s
           /\ hpos' = d.hpos
           /\ vpos' = d.vpos
           /\ fb' = d.fb
           /\ prev_vsync' = d.prev_vsync
           /\ wr' = d.wr
           /\ frame_end' = d.frame_end
           /\ clocks' = clocks - 1
           /\ row_base' = IF clocks = 1 THEN -1 ELSE d.row_base
           /\ cv' = step.cv
           /\ cvr' = CallRecord(step, cvr)
    /\ ref' = EdgeStep(ref, s)
    /\ UNCHANGED <<mon, gen, meas, sess, sv, obs, ct, shown, prof, profr, encoderVars>>

\* ------------------------------------------------------------ session
\* main from the end of its set-up to its final reports.  The mode is
\* "save" (--save-png) or "interactive"; on holds the flags given; monitor
\* tells whether the TimingMonitor pointer is non-null; reports counts the
\* report() calls made on each validator; edges counts the loop iterations
\* of simulate_frame so far.

\* Edges of one interactive simulate_frame call (50000 in main, here in the
\* scale of the video mode), and cycles of the reset sequence.
BatchClocks == 5
ResetCycles == 8

\* Edges up to which a session is followed.
SessionCap == FrameTicks + H_TOTAL * (V_FP + V_SYNC + 1)

\* The dumps of the reset sequence: two per cycle while trace clocks remain.
ResetDumps(tracing, trace_clocks) ==
    IF tracing /\ trace_clocks > 0 THEN Min(2 * ResetCycles, trace_clocks) ELSE 0

\* The --trace-clocks values tried: the default of one frame, what the
\* reset sequence uses up, and a few clocks more than that.
TraceClocks == {FrameTicks, 2 * ResetCycles, 2 * ResetCycles + BatchClocks}

\* main after argument parsing, reset sequence and validator creation.
SessionStart(mode, on, trace_clocks) ==
    [mode |-> mode, on |-> on,
     phase |-> IF mode = "save" THEN "start" ELSE "loop",
     quit |-> FALSE,
     monitor |-> "timing" \in on,
     reports |-> [f \in ValidatorFlags |-> 0],
     trace_time |-> ResetDumps("trace" \in on, trace_clocks),
     remaining_trace_clocks |->
         trace_clocks - ResetDumps("trace" \in on, trace_clocks),
     sim_clocks |-> 0,
     edges |-> 0]

\* sim_clocks of the save mode.
SimClocks(validate_timing, tracing, remaining) ==
    LET base == FrameTicks +
                (IF validate_timing THEN H_TOTAL * (V_FP + V_SYNC + 1) ELSE 0)
    IN  IF tracing /\ remaining > 0 THEN Min(remaining, base) ELSE base

\* Save mode: sim_clocks is computed and simulate_frame entered.
SaveEnter ==
    /\ sess.mode = "save" /\ sess.phase = "start"
    /\ LET n == SimClocks("timing" \in sess.on, "trace" \in sess.on,
                          sess.remaining_trace_clocks)
       IN  /\ clocks' = n
           /\ sess' = [sess EXCEPT !.phase = "batch", !.sim_clocks = n]
    /\ row_base' = EntryRowBase(vpos)
    /\ UNCHANGED <<top, fb, hpos, vpos, prev_vsync, wr, frame_end, ref>>
    /\ UNCHANGED <<mon, gen, meas>>
    /\ UNCHANGED validatorVars

\* The event queues tried at the head of the interactive loop: empty, a
\* window close, the q key, and the p key followed by the q key.
EventQueues == {<< >>, <<"SDL_QUIT">>, <<"q">>, <<"p", "q">>}

Events(q) == {q[i] : i \in DOMAIN q}

\* The environments of the save_framebuffer_png calls of a session.
SessionEnvs == {Healthy, [Healthy EXCEPT !.fopen = FALSE]}

\* save_framebuffer_png(file, framebuffer, H_RES, V_RES) and the "Saved
\* frame to" line.
SavedPng(pixels, env) ==
    LET r == save_framebuffer_png(pixels, H_RES, V_RES, env)
    IN  [img |-> [w |-> H_RES, h |-> V_RES, pixels |-> pixels], env |-> env,
         called |-> TRUE, opened |-> r.opened, file |-> r.file,
         failed |-> r.failed, announced |-> TRUE,
         idat_size |-> r.idat_size, allocated |-> r.allocated]

\* Interactive mode, head of the loop: the queued events are handled, then
\* simulate_frame is entered for one batch (quit is tested only at the
\* head of the loop).
Poll(events, env) ==
    /\ sess.mode = "interactive" /\ sess.phase = "loop" /\ ~sess.quit
    /\ Events(events) \cap {"SDL_QUIT", "q"} = {} =>
           sess.edges + BatchClocks <= SessionCap
    /\ sess' = [sess EXCEPT !.phase = "batch",
                            !.quit = Events(events) \cap {"SDL_QUIT", "q"} # {}]
    /\ png' = IF "p" \in Events(events) THEN SavedPng(fb, env) ELSE png
    /\ clocks' = BatchClocks
    /\ row_base' = EntryRowBase(vpos)
    /\ UNCHANGED <<top, fb, hpos, vpos, prev_vsync, wr, frame_end, ref>>
    /\ UNCHANGED <<mon, gen, meas>>
    /\ UNCHANGED <<sv, obs, cv, cvr, ct, shown, prof, profr, crcv>>

\* The sample the hardware presents at the source's point g.
SessionSample(g, c) ==
    [hsync |-> Emit(g).hsync, vsync |-> Emit(g).vsync,
     activevideo |-> Emit(g).activevideo, rrggbb |-> c]

\* One loop iteration of simulate_frame as main calls it in a session:
\* the two dumps when tracing (save mode only), the ticks of the monitor,
\* the sync validator and the profiler, track on a frame end, and the
\* decoding with the coordinate validator, each only if its object exists.
SessionEdge(g, s) ==
    /\ sess.phase = "batch"
    /\ clocks > 0
    /\ LET step == EdgeStepChecked(Decoder, s, cv, "coordinates" \in sess.on)
           d == step.dec
       IN  /\ top' = s
           /\ hpos' = d.hpos
           /\ vpos' = d.vpos
           /\ fb' = d.fb
           /\ prev_vsync' = d.prev_vsync
           /\ wr' = d.wr
           /\ frame_end' = d.frame_end
           /\ clocks' = clocks - 1
           /\ row_base' = IF clocks = 1 THEN -1 ELSE d.row_base
           /\ cv' = step.cv
           /\ cvr' = CallRecord(step, cvr)
    /\ ref' = EdgeStep(ref, s)
    /\ gen' = SourceStep(g, s)
    /\ IF sess.monitor
       THEN mon' = Tick(mon, s) /\ meas' = MeasStep(meas, s)
       ELSE UNCHANGED <<mon, meas>>
    /\ IF "signals" \in sess.on
       THEN /\ sv' = SyncTick(sv, s.hsync, s.vsync)
            /\ obs' = ObsStep(obs, s.hsync, s.vsync)
       ELSE UNCHANGED <<sv, obs>>
    /\ IF "profile" \in sess.on
       THEN /\ prof' = ProfilerTick(prof, s.activevideo, s.rrggbb)
            /\ profr' = [activevideo |-> s.activevideo, rrggbb |-> s.rrggbb,
                         calls |-> profr.calls + 1]
       ELSE UNCHANGED <<prof, profr>>
    /\ IF "changes" \in sess.on /\ FrameEnd(s, prev_vsync)
       THEN ct' = track(ct, fb) /\ shown' = Append(shown, fb)
       ELSE UNCHANGED <<ct, shown>>
    /\ sess' = [sess EXCEPT
                  !.edges = @ + 1,
                  !.trace_time = IF sess.mode = "save" /\ "trace" \in sess.on
                                 THEN @ + 2 ELSE @]
    /\ UNCHANGED encoderVars

\* The iteration on the next sample of the hardware's signal.
SessionEdgeNominal ==
    \E c \in ColorCodes : SessionEdge(gen, SessionSample(gen, c))

\* The width shifts of the one hsync pulse a session may find perturbed.
SessionDeltas == {SYNC_TOLERANCE + 1}

\* The same, the hsync pulse that starts with this sample, in the first
\* line of the session, being perturbed.
SessionEdgePerturbed(delta) ==
    /\ gen.mode = "periodic"
    /\ "h" \in PulseStarts(gen)
    /\ sess.edges < H_TOTAL
    /\ \E c \in ColorCodes :
          SessionEdge(Arm(gen, "h", delta), SessionSample(Arm(gen, "h", delta), c))

\* Mutant of MonitorCheck: the report is made but the pointer is kept.
MonitorCheckKeeps(alive, m) ==
    IF alive /\ is_complete(m)
    THEN [report |-> TRUE, monitor |-> TRUE]
    ELSE [report |-> FALSE, monitor |-> alive]

\* if (monitor && monitor->is_complete()) { report(); delete; = nullptr; }
MonitorCheck(alive, m) ==
    IF alive /\ is_complete(m)
    THEN [report |-> TRUE, monitor |-> FALSE]
    ELSE [report |-> FALSE, monitor |-> alive]

\* Interactive mode, after simulate_frame has returned: the display is
\* updated and the monitor checked; the loop ends if quit is set.
BatchReturn ==
    /\ sess.mode = "interactive" /\ sess.phase = "batch"
    /\ clocks = 0
    /\ LET r == MonitorCheck(sess.monitor, mon)
       IN  sess' = [sess EXCEPT
                      !.monitor = r.monitor,
                      !.reports["timing"] = IF r.report THEN @ + 1 ELSE @,
                      !.phase = IF sess.quit THEN "final" ELSE "loop"]
    /\ UNCHANGED <<decoderVars, mon, gen, meas>>
    /\ UNCHANGED validatorVars

\* Save mode, after simulate_frame has returned: the trace clocks are
\* charged, the frame is saved and announced, quit is set.
SaveReturn(env) ==
    /\ sess.mode = "save" /\ sess.phase = "batch"
    /\ clocks = 0
    /\ sess' = [sess EXCEPT
                  !.remaining_trace_clocks =
                      IF "trace" \in sess.on THEN @ - sess.sim_clocks * 2 ELSE @,
                  !.quit = TRUE,
                  !.phase = "final"]
    /\ png' = SavedPng(fb, env)
    /\ UNCHANGED <<decoderVars, mon, gen, meas>>
    /\ UNCHANGED <<sv, obs, cv, cvr, ct, shown, prof, profr, crcv>>

\* Mutant of FinalReporters: the monitor reports whenever timing validation
\* was enabled.
FinalReportersByFlag(alive, on) == on \cap ValidatorFlags

\* The validators whose pointer is non-null when the loop has ended.
FinalReporters(alive, on) ==
    (IF alive THEN {"timing"} ELSE {}) \cup (on \cap (ValidatorFlags \ {"timing"}))

\* Cleanup and final reports: every validator still alive reports and is
\* deleted.
FinalReports ==
    /\ sess.phase = "final"
    /\ sess' = [sess EXCEPT
                  !.reports = [f \in ValidatorFlags |->
                                  IF f \in FinalReporters(sess.monitor, sess.on)
                                  THEN @[f] + 1 ELSE @[f]],
                  !.monitor = FALSE,
                  !.phase = "done"]
    /\ UNCHANGED <<decoderVars, mon, gen, meas>>
    /\ UNCHANGED validatorVars

\* ------------------------------------------------------------ specifications
\* The decoder with every validator pointer null (the defaults of
\* simulate_frame), fed arbitrary samples in calls of 1 .. MaxBatch edges.
Init ==
    /\ DecoderInit
    /\ mon = MonitorNew
    /\ gen = SourceInit("off", 0, 0, 0)
    /\ sv = SyncValidatorNew
    /\ obs = ObsNew
    /\ meas = MeasNew
    /\ sess = SessionOff
    /\ cv = CoordinateValidatorNew
    /\ cvr = NoCall
    /\ ct = ChangeTrackerNew(-1)
    /\ shown = <<>>
    /\ prof = RenderProfilerNew
    /\ profr = NoTick
    /\ png = PngIdle
    /\ crcv = CrcIdle

Next ==
    \/ \E n \in 1 .. MaxBatch : Enter(n)
    \/ \E s \in Samples : Edge(s)

Spec == Init /\ [][Next]_vars

\* A TimingMonitor fed by the signal source.  The periodic source never
\* stops, which is the fairness of FeedPeriodic.
MonitorInit ==
    /\ DecoderInit
    /\ mon = MonitorNew
    /\ gen \in {SourceInit("any", 0, 0, 0)} \cup
              {SourceInit("periodic", h, v, a) :
                  h \in 0 .. H_TOTAL - 1, v \in 0 .. V_TOTAL - 1, a \in Alignments} \cup
              {SourceInit("overscan", 0, 0, a) : a \in Alignments}
    /\ sv = SyncValidatorNew
    /\ obs = ObsNew
    /\ meas = MeasNew
    /\ sess = SessionOff
    /\ cv = CoordinateValidatorNew
    /\ cvr = NoCall
    /\ ct = ChangeTrackerNew(-1)
    /\ shown = <<>>
    /\ prof = RenderProfilerNew
    /\ profr = NoTick
    /\ png = PngIdle
    /\ crcv = CrcIdle

MonitorNext ==
    \/ \E s \in MonSamples : FeedAny(s)
    \/ FeedPeriodic
    \/ \E sig \in {"h", "v"}, delta \in Deltas : FeedPerturbed(sig, delta)
    \/ FeedOverscan
    \/ \E d \in Cuts, unit \in {1, H_TOTAL} : FeedOverscanCut(d, unit)

SpecMonitor == MonitorInit /\ [][MonitorNext]_vars /\ WF_vars(FeedPeriodic)

\* A TimingMonitor and a SyncValidator fed by the signal source, which is
\* followed until the validator has counted MaxSyncErrors vsync errors.
SyncNext ==
    \/ \E s \in SyncSamples : SyncFeedAny(s)
    \/ SyncFeedPeriodic
    \/ \E sig \in {"h", "v"}, delta \in SyncDeltas : SyncFeedPerturbed(sig, delta)
    \/ \E d \in Slips : SyncFeedSlip(d)

SpecSync == MonitorInit /\ [][SyncNext]_vars /\ WF_vars(SyncFeedPeriodic)

\* A CoordinateValidator whose two methods are called in any order with any
\* of the arguments above.
CoordNext ==
    \/ \E h \in CoordH, v \in CoordV, rb \in CoordRowBase : CallValidate(h, v, rb)
    \/ CallMarkFrameComplete

SpecCoord == Init /\ [][CoordNext]_vars

\* A ChangeTracker whose track is called with any of the framebuffers above.
TrackInit ==
    /\ DecoderInit
    /\ mon = MonitorNew
    /\ gen = SourceInit("off", 0, 0, 0)
    /\ sv = SyncValidatorNew
    /\ obs = ObsNew
    /\ meas = MeasNew
    /\ sess = SessionOff
    /\ cv = CoordinateValidatorNew
    /\ cvr = NoCall
    /\ ct \in {ChangeTrackerNew(j) : j \in Junk}
    /\ shown = <<>>
    /\ prof = RenderProfilerNew
    /\ profr = NoTick
    /\ png = PngIdle
    /\ crcv = CrcIdle

TrackNext == \E f \in Frames : Track(f)

SpecTrack == TrackInit /\ [][TrackNext]_vars

\* A RenderProfiler whose tick is called with any activevideo and colour.
ProfilerNext ==
    \/ \E a \in BOOLEAN, c \in ProfilerColors : CallProfilerTick(a, c)
    \/ CallProfilerMark

SpecProfiler == Init /\ [][ProfilerNext]_vars

\* The decoder called with a ChangeTracker (--track-changes) and fed
\* arbitrary samples in calls of 1 .. MaxBatch edges.
DriverNext ==
    \/ \E n \in 1 .. MaxBatch : Enter(n)
    \/ \E s \in Samples : EdgeTracked(s)

SpecDriver == Init /\ [][DriverNext]_vars

\* The decoder called with a CoordinateValidator (--validate-coordinates)
\* and fed arbitrary samples in calls of 1 .. MaxBatch edges.
CheckedNext ==
    \/ \E n \in 1 .. MaxBatch : Enter(n)
    \/ \E s \in Samples : EdgeChecked(s)

SpecChecked == Init /\ [][CheckedNext]_vars

\* A session of main in either mode with any subset of the flags, the
\* hardware emitting the signal of the video mode from the start of a
\* frame, or that signal overscanned.
SessionInit ==
    /\ DecoderInit
    /\ mon = MonitorNew
    /\ gen \in {SourceInit("periodic", 0, 0, 0), SourceInit("overscan", 0, 0, 0)}
    /\ sv = SyncValidatorNew
    /\ obs = ObsNew
    /\ meas = MeasNew
    /\ sess \in {SessionStart(m, on, FrameTicks) :
                    m \in {"save", "interactive"}, on \in SUBSET Flags} \cup
               {SessionStart("save", on \cup {"trace"}, tc) :
                    on \in SUBSET Flags, tc \in TraceClocks}
    /\ cv = CoordinateValidatorNew
    /\ cvr = NoCall
    /\ ct = ChangeTrackerNew(-1)
    /\ shown = <<>>
    /\ prof = RenderProfilerNew
    /\ profr = NoTick
    /\ png = PngIdle
    /\ crcv = CrcIdle

SessionNext ==
    \/ SaveEnter
    \/ \E events \in EventQueues, env \in SessionEnvs : Poll(events, env)
    \/ SessionEdgeNominal
    \/ \E delta \in SessionDeltas : SessionEdgePerturbed(delta)
    \/ BatchReturn
    \/ \E env \in SessionEnvs : SaveReturn(env)
    \/ FinalReports

SpecSession == SessionInit /\ [][SessionNext]_vars

\* One save_framebuffer_png call on any of the images in any of the
\* environments.
PngInit ==
    /\ DecoderInit
    /\ mon = MonitorNew
    /\ gen = SourceInit("off", 0, 0, 0)
    /\ sv = SyncValidatorNew
    /\ obs = ObsNew
    /\ meas = MeasNew
    /\ sess = SessionOff
    /\ cv = CoordinateValidatorNew
    /\ cvr = NoCall
    /\ ct = ChangeTrackerNew(-1)
    /\ shown = <<>>
    /\ prof = RenderProfilerNew
    /\ profr = NoTick
    /\ png \in {PngCall(img, env) : img \in Images, env \in Environments}
    /\ crcv = CrcIdle

PngNext == SaveFramebufferPng

SpecPng == PngInit /\ [][PngNext]_vars

\* One crc32 call on any start value and byte string above.
CrcInit ==
    /\ DecoderInit
    /\ mon = MonitorNew
    /\ gen = SourceInit("off", 0, 0, 0)
    /\ sv = SyncValidatorNew
    /\ obs = ObsNew
    /\ meas = MeasNew
    /\ sess = SessionOff
    /\ cv = CoordinateValidatorNew
    /\ cvr = NoCall
    /\ ct = ChangeTrackerNew(-1)
    /\ shown = <<>>
    /\ prof = RenderProfilerNew
    /\ profr = NoTick
    /\ png = PngIdle
    /\ crcv \in {CrcCall(c, b) : c \in CrcStarts, b \in Strings(MaxCrcLen)}

CrcNext == CallCrc32

SpecCrc == CrcInit /\ [][CrcNext]_vars

\* ------------------------------------------------------------ claims
\* A step that is one processed edge (Enter leaves clocks raised).
IsEdge == clocks' = clocks - 1

\* The position an edge works on after its frame-start handling.
InActive(h, v) == 0 <= h /\ h < H_RES /\ 0 <= v /\ v < V_RES

\* Byte offset of pixel (column h, row v).
PixelOffset(h, v) == (v * H_RES + h) * 4

\* C1: in every state, before and after each processed edge and for every
\* batch split, -H_BP <= hpos < H_RES + H_FP + H_SYNC and
\* -V_BP <= vpos < V_RES + V_FP + V_SYNC.
C1_PositionRange ==
    /\ -H_BP <= hpos /\ hpos < H_RES + H_FP + H_SYNC
    /\ -V_BP <= vpos /\ vpos < V_RES + V_FP + V_SYNC

\* C1 witness: the last position of the frame has been reached by counting.
C1_Witness ==
    /\ hpos = H_RES + H_FP + H_SYNC - 1
    /\ vpos = V_RES + V_FP + V_SYNC - 1

\* C2: the run split into calls of any sizes agrees, after every edge, with
\* the run of the same samples in one single call: same framebuffer, same
\* position, same static prev_vsync, same stores and same track trigger; the
\* row base agrees whenever a call is active.
C2_BatchInvisible ==
    /\ fb = ref.fb
    /\ hpos = ref.hpos
    /\ vpos = ref.vpos
    /\ prev_vsync = ref.prev_vsync
    /\ wr = ref.wr
    /\ frame_end = ref.frame_end
    /\ clocks > 0 => row_base = ref.row_base

\* C2 witness: a call has just been entered in the middle of an active row,
\* right after the previous call stored a pixel of that row.
C2_Witness ==
    /\ clocks = MaxBatch
    /\ 0 < hpos /\ hpos < H_RES
    /\ row_base >= 0
    /\ wr # {}

\* C3: after an edge whose sample has hsync and vsync low the position is
\* (-H_BP + 1, -V_BP) and the edge stored nothing, whatever came before.
C3_FrameStartResync ==
    FrameStart(top) => hpos = -H_BP + 1 /\ vpos = -V_BP /\ wr = {}

\* C3 witness: a frame start seen after the last pixel had been drawn, with
\* a call still running.
C3_Witness ==
    /\ ~top.hsync /\ ~top.vsync
    /\ fb[FB_SIZE - 1] = 255
    /\ clocks > 0

\* C4: on every edge whose sample does not have both syncs low the new
\* position is the successor of the old one: hpos + 1, or at the horizontal
\* boundary hpos wraps to -H_BP and vpos advances, wrapping to -V_BP at the
\* vertical boundary; vpos changes only when hpos wraps.
C4_Incremental ==
    [][(IsEdge /\ (top'.hsync \/ top'.vsync)) =>
          /\ hpos' = IF hpos + 1 = H_RES + H_FP + H_SYNC THEN -H_BP ELSE hpos + 1
          /\ vpos' = IF hpos + 1 = H_RES + H_FP + H_SYNC
                     THEN (IF vpos + 1 = V_RES + V_FP + V_SYNC
                           THEN -V_BP ELSE vpos + 1)
                     ELSE vpos
          /\ (vpos' # vpos => hpos' = -H_BP)]_vars

\* C4 witness: a line wrap on a sample with hsync alone low, active video
\* set, moved the position to the start of the row after the active rows.
C4_Witness ==
    /\ ~top.hsync /\ top.vsync /\ top.activevideo
    /\ hpos = -H_BP
    /\ vpos = V_RES

\* C5: an edge that, after frame-start handling, stands on an active
\* position stores exactly the 4 bytes of the pixel at row vpos, column hpos:
\* 85 * (c & 3), 85 * ((c >> 2) & 3), 85 * ((c >> 4) & 3), 255; every code
\* maps to channels among 0, 85, 170, 255.
C5_PixelWrite ==
    [][(IsEdge /\ (top'.hsync \/ top'.vsync) /\ InActive(hpos, vpos)) =>
          LET off == PixelOffset(hpos, vpos)
              c == top'.rrggbb
          IN  /\ wr' = off .. off + 3
              /\ fb'[off] = 85 * (c % 4)
              /\ fb'[off + 1] = 85 * ((c \div 4) % 4)
              /\ fb'[off + 2] = 85 * ((c \div 16) % 4)
              /\ fb'[off + 3] = 255
              /\ \A k \in 0 .. 2 : fb'[off + k] \in {0, 85, 170, 255}]_vars

\* C5 witness: the bottom-right pixel has just been stored with code 27.
C5_Witness ==
    /\ wr = (FB_SIZE - 4) .. (FB_SIZE - 1)
    /\ fb[FB_SIZE - 4] = 255
    /\ fb[FB_SIZE - 3] = 170
    /\ fb[FB_SIZE - 2] = 85
    /\ fb[FB_SIZE - 1] = 255

\* C6: an edge changes no byte outside the pixel at its (hpos, vpos); an
\* edge outside the active region, and every frame-start edge, stores
\* nothing and leaves the framebuffer as it was; every index stored to lies
\* in [0, 4 * H_RES * V_RES).
C6_FrameCondition ==
    [][IsEdge =>
          LET off == PixelOffset(hpos, vpos)
          IN  /\ wr' \subseteq 0 .. (4 * H_RES * V_RES - 1)
              /\ \A i \in DOMAIN fb :
                    fb'[i] # fb[i] => InActive(hpos, vpos) /\ i \in off .. off + 3
              /\ (~InActive(hpos, vpos) \/ (~top'.hsync /\ ~top'.vsync)) =>
                    fb' = fb /\ wr' = {}]_vars

\* C6 witness: the edge at the first column right of the active width of
\* row 0 stored nothing, the row's first pixel being drawn.
C6_Witness ==
    /\ wr = {}
    /\ hpos = H_RES + 1
    /\ vpos = 0
    /\ fb[3] = 255

\* The drift-free signal has been fed from the start and is still unperturbed.
DriftFree == gen.mode = "periodic" /\ gen.pert.state = "idle"

AllCountersZero ==
    /\ mon.hsync_errors = 0 /\ mon.vsync_errors = 0
    /\ mon.h_total_errors = 0 /\ mon.v_total_errors = 0
    /\ mon.h_active_errors = 0 /\ mon.v_active_errors = 0

\* C7 as claimed: after at least two full frames of the drift-free signal,
\* started anywhere, all six counters are zero and the report is PASS.
C7_TwoFramesPass ==
    (DriftFree /\ gen.ticks >= 2 * FrameTicks) =>
        AllCountersZero /\ Report(mon).verdict = "PASS"

\* C7 amended: the drift-free signal, started anywhere, keeps all six
\* counters at zero at every sample, and once more than two full frames
\* (2 * H_TOTAL * V_TOTAL + 1 samples) have been fed the report is PASS.
C7_MoreThanTwoFramesPass ==
    /\ DriftFree => AllCountersZero
    /\ (DriftFree /\ gen.ticks >= 2 * FrameTicks + 1) =>
          Report(mon).verdict = "PASS"

\* C7 witness: the drift-free signal that began on the sample where vsync
\* falls has been fed for two frames and one sample and reports PASS.
C7_Witness ==
    /\ DriftFree
    /\ gen.ticks = 2 * FrameTicks + 1
    /\ gen.vfalls = 2
    /\ mon.v_counter = 0
    /\ Report(mon).verdict = "PASS"

\* C8: once a sync pulse whose falling edge was observed has been fed with
\* its width shifted by delta, in an otherwise drift-free signal, the
\* monitor has counted exactly one width error if the shift is TOLERANCE + 1
\* and none if it is TOLERANCE.
C8_ToleranceBoundary ==
    (gen.pert.state = "done" /\ gen.pert.seen) =>
        mon.hsync_errors + mon.vsync_errors =
            (IF gen.pert.delta > TOLERANCE \/ gen.pert.delta < -TOLERANCE
             THEN 1 ELSE 0)

\* C9 as claimed: whenever report can be called (a sample has been fed) it
\* is PASS if all six counters are zero and FAIL otherwise, and has_errors()
\* holds exactly when the report is FAIL.
C9_PassOrFail ==
    ~mon.first_sample =>
        /\ AllCountersZero => Report(mon).verdict = "PASS"
        /\ ~AllCountersZero => Report(mon).verdict = "FAIL"
        /\ has_errors(mon) <=> Report(mon).verdict = "FAIL"

\* C9 amended: once a full frame has been measured the report is PASS if
\* all six counters are zero and otherwise FAIL with exactly the non-zero
\* categories and their counts; before that it is the "incomplete" warning,
\* neither PASS nor FAIL, whatever the counters; has_errors() holds exactly
\* when some counter is non-zero.
C9_ReportVerdict ==
    /\ mon.frame_complete /\ AllCountersZero => Report(mon).verdict = "PASS"
    /\ mon.frame_complete /\ ~AllCountersZero =>
          /\ Report(mon).verdict = "FAIL"
          /\ \A k \in DOMAIN ErrorCounts(mon) :
                (ErrorCounts(mon)[k] > 0) <=>
                    (<<k, ErrorCounts(mon)[k]>> \in Report(mon).lines)
          /\ Cardinality(Report(mon).lines) <= 6
    /\ ~mon.frame_complete => Report(mon).verdict = "INCOMPLETE"
    /\ has_errors(mon) <=> ~AllCountersZero

\* C9 witness: a measured frame whose only error is one vsync width error.
C9_Witness ==
    /\ mon.frame_complete
    /\ Report(mon) = [verdict |-> "FAIL", lines |-> {<<"vsync", 1>>}]
    /\ has_errors(mon)

\* C10: is_complete() is true exactly from the second observed vsync falling
\* edge on, never reverts, and under the periodic signal eventually holds.
C10_Complete ==
    /\ [](is_complete(mon) <=> gen.vfalls >= 2)
    /\ [][is_complete(mon) => is_complete(mon')]_vars
    /\ (gen.mode = "periodic") ~> is_complete(mon)

\* C10 witness: the periodic signal has just delivered the second observed
\* vsync falling edge and is_complete() holds.
C10_Witness ==
    /\ gen.mode = "periodic"
    /\ gen.vfalls = 2
    /\ ~mon.prev_vsync /\ mon.v_counter = 0 /\ mon.in_vsync_pulse
    /\ is_complete(mon)
    /\ gen.ticks < FrameTicks + H_TOTAL

\* ---- SyncValidator
\* The edges of the step's sample against the sample fed before it.
StepHFall == obs.fed /\ obs.hsync /\ ~obs'.hsync
StepHRise == obs.fed /\ ~obs.hsync /\ obs'.hsync
StepVFall == obs.fed /\ obs.vsync /\ ~obs'.vsync
StepVRise == obs.fed /\ ~obs.vsync /\ obs'.vsync

\* The step adds n to the hsync (vsync) error count.
HErrorsAdded(n) == sv'.hsync_state.error_count = sv.hsync_state.error_count + n
VErrorsAdded(n) == sv'.vsync_state.error_count = sv.vsync_state.error_count + n

\* C11 as claimed: at a vsync falling edge after the first one, a vsync
\* glitch is counted iff fewer than H_TOTAL * V_TOTAL - 2 samples have
\* elapsed since the previous vsync falling edge, so the drift-free signal,
\* whose vsync falls every H_TOTAL * V_TOTAL samples, never counts one.
C11_VsyncGlitch ==
    [][(StepVFall /\ obs.vfalls >= 1) =>
          (VErrorsAdded(1) <=> obs.vgap < FrameTicks - SYNC_TOLERANCE)]_vars

\* C12: at an hsync falling edge after the first one, an hsync glitch is
\* counted iff fewer than H_TOTAL - 2 samples have elapsed since the
\* previous hsync falling edge, whatever the width of the pulse in between;
\* the first falling edge counts none.
C12_HsyncGlitch ==
    [][StepHFall =>
          IF obs.hfalls >= 1 /\ obs.hgap < H_TOTAL - SYNC_TOLERANCE
          THEN HErrorsAdded(1) ELSE HErrorsAdded(0)]_vars

\* C12 witness: a line of the periodic signal was cut short by 3 samples, the
\* hsync falling edge came H_TOTAL - 3 samples after the previous one and
\* has just been counted as the only hsync error.
C12_Witness ==
    /\ gen.pert.sig = "slip"
    /\ gen.pert.delta = -(SYNC_TOLERANCE + 1)
    /\ ~obs.hsync /\ obs.hgap = 1 /\ obs.hfalls = 2
    /\ sv.hsync_state.error_count = 1
    /\ "HSYNC GLITCH" \in sv.emitted

\* C13 as claimed: at each hsync rising edge a width error is counted iff
\* the number of low samples of the pulse is outside [H_SYNC - 2, H_SYNC + 2],
\* and at each vsync rising edge iff the low samples of the pulse divided by
\* H_TOTAL are outside [V_SYNC - 2, V_SYNC + 2].
C13_WidthError ==
    [][/\ StepHRise =>
            (HErrorsAdded(1) <=>
                (obs.hlow < H_SYNC - SYNC_TOLERANCE \/
                 obs.hlow > H_SYNC + SYNC_TOLERANCE))
       /\ StepVRise =>
            (VErrorsAdded(1) <=>
                (obs.vlow \div H_TOTAL < V_SYNC - SYNC_TOLERANCE \/
                 obs.vlow \div H_TOTAL > V_SYNC + SYNC_TOLERANCE))]_vars

\* C14: the validator is silent exactly once a vsync rising edge has been
\* fed and stays so; a tick that leaves it not silent emits one diagnostic
\* per error it counts, the tick of the first vsync rising edge emits at
\* most that pulse's width error, every later tick emits nothing; the error
\* counts never decrease and a silent tick counts what the same tick would
\* count were the validator not silent; the new state of each of
\* TimingMonitor and SyncValidator is its own tick applied to its own
\* state and the sample.
C14_SilentMode ==
    /\ [](sv.silent_mode <=> obs.vrises > 0)
    /\ [][/\ sv.silent_mode => sv'.silent_mode /\ sv'.emitted = {}
          /\ (~sv.silent_mode /\ sv'.silent_mode) =>
                sv'.emitted \subseteq {"VSYNC WIDTH ERROR"}
          /\ (obs.fed /\ ~sv'.silent_mode) =>
                get_total_errors(sv') =
                    get_total_errors(sv) + Cardinality(sv'.emitted)
          /\ sv'.hsync_state.error_count >= sv.hsync_state.error_count
          /\ sv'.vsync_state.error_count >= sv.vsync_state.error_count
          /\ \E s \in MonSamples :
                /\ mon' = Tick(mon, s)
                /\ sv' = SyncTick(sv, s.hsync, s.vsync)
                /\ LET loud == SyncTick([sv EXCEPT !.silent_mode = FALSE],
                                        s.hsync, s.vsync)
                   IN  /\ sv'.hsync_state = loud.hsync_state
                       /\ sv'.vsync_state = loud.vsync_state]_vars

\* C14 witness: the validator, silent since the first vsync rising edge, has
\* just counted the glitch of a line cut short, and emitted nothing, while
\* the TimingMonitor counts differ from the validator's.
C14_Witness ==
    /\ sv.silent_mode /\ obs.vrises > 0 /\ obs.vsync /\ obs.vlow = 0
    /\ gen.align = 0
    /\ gen.pert.sig = "slip" /\ gen.pert.delta = -(SYNC_TOLERANCE + 1)
    /\ ~obs.hsync /\ obs.hgap = 1 /\ obs.hfalls = 2
    /\ sv.hsync_state.error_count = 1
    /\ sv.emitted = {}
    /\ mon.hsync_errors = 0

\* ---- CoordinateValidator
\* The coordinates are inside the active area and the row base is theirs.
CoordOk(h, v, rb) ==
    /\ 0 <= h /\ h < H_RES
    /\ 0 <= v /\ v < V_RES
    /\ rb = v * H_RES * 4

\* C15: validate returns true iff 0 <= hpos < H_RES, 0 <= vpos < V_RES and
\* row_base = vpos * H_RES * 4, in every validator state and with the same
\* result as a fresh validator gives; a call made when the validator is
\* silent (threshold reached or first frame completed) writes nothing.
C15_ValidateResult ==
    [][cvr'.op = "validate" =>
          /\ cvr'.valid <=> CoordOk(cvr'.hpos, cvr'.vpos, cvr'.row_base)
          /\ cvr'.valid = validate(CoordinateValidatorNew, cvr'.hpos,
                                   cvr'.vpos, cvr'.row_base).valid
          /\ (cv.silent_mode \/ cv.error_count >= ERROR_THRESHOLD) =>
                cvr'.lines = {}]_vars

\* C15 witness: with the threshold reached, a call whose only fault is the
\* row base of another row has returned false and written nothing.
C15_Witness ==
    /\ cv.error_count = ERROR_THRESHOLD /\ cv.silent_mode /\ ~cv.frame_complete
    /\ cvr.op = "validate" /\ ~cvr.valid /\ cvr.lines = {}
    /\ cvr.hpos = 0 /\ cvr.vpos = V_RES - 1 /\ cvr.row_base = 0

\* C16 as claimed: after a call of validate that returned false the error
\* count is positive, has_errors() holds and the report is FAIL.
C16_RejectedCounted ==
    (cvr.op = "validate" /\ ~cvr.valid) =>
        /\ get_error_count(cv) > 0
        /\ coord_has_errors(cv)
        /\ CoordReport(cv).verdict = "FAIL"

\* C17: the validator is silent exactly when the first frame has been
\* marked complete or the error count has reached the threshold, and stays
\* so under every later call; a silent validator writes nothing, one that
\* is not writes a line for every call it rejects; marking the frame
\* complete a second time changes nothing.
C17_SilentPermanent ==
    /\ [](cv.silent_mode <=>
            (cv.frame_complete \/ cv.error_count >= ERROR_THRESHOLD))
    /\ [](mark_frame_complete(mark_frame_complete(cv)) = mark_frame_complete(cv))
    /\ [][/\ cv.silent_mode => cv'.silent_mode /\ cvr'.lines = {}
          /\ cv.frame_complete => cv'.frame_complete
          /\ (~cv.silent_mode /\ cvr'.op = "validate" /\ ~cvr'.valid) =>
                cvr'.lines # {}
          /\ (cv.frame_complete /\ cvr'.op = "mark_frame_complete") => cv' = cv]_vars

\* C17 witness: one error was reported, the first frame-start then silenced
\* the validator below the threshold, and a rejected call after it has
\* written nothing.
C17_Witness ==
    /\ cv.frame_complete /\ cv.silent_mode
    /\ cv.error_count = 1
    /\ cvr.op = "validate" /\ ~cvr.valid /\ cvr.lines = {}

\* ---- ChangeTracker
\* The framebuffer of the last track call and the one of the call before.
LastShown == shown[Len(shown)]
ShownBefore == shown[Len(shown) - 1]

Pixels == 0 .. H_RES * V_RES - 1

\* Pixel p differs in at least one of its four bytes between a and b.
Differs(a, b, p) == \E k \in 0 .. 3 : a[4 * p + k] # b[4 * p + k]

\* The pixels the last tracked frame changed, and the tiles they lie in.
ChangedNow == {p \in Pixels : Differs(ShownBefore, LastShown, p)}
TilesNow ==
    {<<(p % H_RES) \div TILE_SIZE, (p \div H_RES) \div TILE_SIZE>> : p \in ChangedNow}

\* C18: after the first track call the tracker is as constructed but for
\* the stored snapshot and the first-frame flag: no frame tracked, no pixel
\* changed, change map, dirty tiles, heat map and statistics untouched,
\* get_dirty_rect reports no change; every later call diffs against the
\* framebuffer of the call just before it and stores its own.
C18_Baseline ==
    /\ Len(shown) = 1 =>
          /\ \E j \in Junk :
                ct = [ChangeTrackerNew(j) EXCEPT !.prev_framebuffer = shown[1],
                                                 !.first_frame = FALSE]
          /\ ct.frames_tracked = 0 /\ get_changed_pixels(ct) = 0
          /\ ~get_dirty_rect(ct).ok
    /\ Len(shown) >= 2 =>
          /\ ct.prev_framebuffer = LastShown
          /\ ct.frames_tracked = Len(shown) - 1
          /\ \A p \in Pixels :
                ct.change_map[p] <=> Differs(ShownBefore, LastShown, p)

\* C18 witness: the only call so far passed the all-255 framebuffer, which
\* differs from the constructor's zeroed snapshot in every pixel.
C18_Witness ==
    /\ Len(shown) = 1
    /\ shown[1] = Solid(255)
    /\ ct.prev_framebuffer = Solid(255)
    /\ ct.frames_tracked = 0 /\ get_changed_pixels(ct) = 0
    /\ ~get_dirty_rect(ct).ok

\* C19: after every tracked frame change_map[p] holds exactly for the
\* pixels with at least one of the four bytes different from the previous
\* snapshot and changed_pixels is their number; identical frames give 0
\* and no dirty tile; all-zero followed by all-255 gives H_RES * V_RES.
C19_ChangeMap ==
    Len(shown) >= 2 =>
        /\ \A p \in Pixels : ct.change_map[p] <=> p \in ChangedNow
        /\ get_changed_pixels(ct) = Cardinality(ChangedNow)
        /\ LastShown = ShownBefore =>
              /\ get_changed_pixels(ct) = 0
              /\ get_dirty_tile_count(ct) = 0
              /\ \A i \in DOMAIN ct.dirty_tiles : ~ct.dirty_tiles[i]
        /\ (ShownBefore = Solid(0) /\ LastShown = Solid(255)) =>
              get_changed_pixels(ct) = H_RES * V_RES

\* C19 witness: the second tracked frame changed only the fourth byte of
\* the last pixel; the first pixel, changed by the frame before, is no
\* longer in the change map and the count is 1.
C19_Witness ==
    /\ shown = <<Solid(0), Dots({<<0, 0, 0>>}),
                 Dots({<<0, 0, 0>>, <<H_RES - 1, V_RES - 1, 3>>})>>
    /\ get_changed_pixels(ct) = 1
    /\ ct.change_map[H_RES * V_RES - 1]
    /\ ~ct.change_map[0]

ChangedAt(k) == {p \in Pixels : Differs(shown[k - 1], shown[k], p)}
CountAt(k) == Cardinality(ChangedAt(k))

\* The columns and rows of the pixels the last tracked frame changed.
ColsNow == {p % H_RES : p \in ChangedNow}
RowsNow == {p \div H_RES : p \in ChangedNow}

\* C21: get_dirty_rect returns false exactly when no frame has been diffed
\* yet or the last tracked frame changed no pixel; otherwise x and y are
\* the smallest changed column and row and x + w - 1 and y + h - 1 the
\* largest; when every pixel changed the box is (0, 0, H_RES, V_RES).
C21_DirtyRect ==
    LET r == get_dirty_rect(ct)
    IN  /\ Len(shown) <= 1 => ~r.ok
        /\ Len(shown) >= 2 =>
              /\ r.ok <=> ChangedNow # {}
              /\ r.ok =>
                    /\ r.x \in ColsNow /\ \A c \in ColsNow : r.x <= c
                    /\ r.y \in RowsNow /\ \A c \in RowsNow : r.y <= c
                    /\ r.x + r.w - 1 \in ColsNow
                    /\ \A c \in ColsNow : c <= r.x + r.w - 1
                    /\ r.y + r.h - 1 \in RowsNow
                    /\ \A c \in RowsNow : c <= r.y + r.h - 1
              /\ ChangedNow = Pixels =>
                    r = [ok |-> TRUE, x |-> 0, y |-> 0, w |-> H_RES, h |-> V_RES]

\* C21 witness: after a frame that changed every pixel, a frame changed the
\* two ends of the top row only: the box is that row.
C21_Witness ==
    /\ shown = <<Solid(255), Solid(0),
                 Dots({<<0, 0, 0>>, <<H_RES - 1, 0, 1>>})>>
    /\ get_dirty_rect(ct) =
           [ok |-> TRUE, x |-> 0, y |-> 0, w |-> H_RES, h |-> 1]

\* The number of tracked frames that changed pixel p.
TimesChanged(p) == Cardinality({k \in 2 .. Len(shown) : p \in ChangedAt(k)})

\* C22: heat_map[p] is the number of tracked frames that changed p, or the
\* counter's maximum if that is smaller; it never exceeds frames_tracked;
\* a tracked frame adds 1 for a changed pixel whose counter is below its
\* maximum and leaves every other counter as it is.
C22_HeatMap ==
    /\ [](\A p \in Pixels :
            /\ ct.heat_map[p] = Min(TimesChanged(p), HEAT_MAX)
            /\ ct.heat_map[p] <= ct.frames_tracked)
    /\ [][\A p \in Pixels :
            ct'.heat_map[p] =
                IF Len(shown') >= 2 /\ Differs(shown'[Len(shown') - 1],
                                               shown'[Len(shown')], p) /\
                   ct.heat_map[p] < HEAT_MAX
                THEN ct.heat_map[p] + 1 ELSE ct.heat_map[p]]_vars

\* C22 witness: the top-left pixel changed in each of three tracked frames
\* and its counter stands at the maximum, one short of the frame count; the
\* bottom-right pixel never changed.
C22_Witness ==
    /\ shown = <<Solid(0), Dots({<<0, 0, 0>>}), Solid(0), Dots({<<0, 0, 0>>})>>
    /\ ct.heat_map[0] = HEAT_MAX
    /\ ct.frames_tracked = HEAT_MAX + 1
    /\ ct.heat_map[H_RES * V_RES - 1] = 0

RECURSIVE SumCounts(_)
SumCounts(k) == IF k < 2 THEN 0 ELSE CountAt(k) + SumCounts(k - 1)

\* C23: after k >= 1 tracked frames frames_tracked = k, total_changed_pixels
\* is the sum of the k per-frame changed counts, min_changed their minimum
\* and max_changed their maximum, which bracket the last frame's count.
C23_Statistics ==
    Len(shown) >= 2 =>
        LET counts == {CountAt(k) : k \in 2 .. Len(shown)}
        IN  /\ ct.frames_tracked = Len(shown) - 1
            /\ ct.total_changed_pixels = SumCounts(Len(shown))
            /\ ct.min_changed \in counts /\ \A n \in counts : ct.min_changed <= n
            /\ ct.max_changed \in counts /\ \A n \in counts : n <= ct.max_changed
            /\ ct.min_changed <= get_changed_pixels(ct)
            /\ get_changed_pixels(ct) <= ct.max_changed

\* C23 witness: three tracked frames changed 1, all and 2 pixels.
C23_Witness ==
    /\ shown = <<Solid(0), Dots({<<0, 0, 0>>}), Solid(255),
                 Dots({<<0, 0, 0>>, <<H_RES - 1, 0, 1>>})>>
    /\ ct.frames_tracked = 3
    /\ ct.min_changed = 1 /\ ct.max_changed = H_RES * V_RES
    /\ ct.total_changed_pixels = 1 + 2 * H_RES * V_RES
    /\ get_changed_pixels(ct) = H_RES * V_RES

\* ---- RenderProfiler

\* C24: every tick adds one to total_clocks and to exactly one bucket: the
\* blank one when activevideo is false, the active-black one when it is true
\* and the colour is zero, the rendered one when it is true and the colour
\* is non-zero; so total_clocks is always the sum of the three buckets.
C24_Buckets ==
    /\ [](prof.total_clocks =
             prof.blank_clocks + prof.active_black_clocks + prof.rendered_clocks)
    /\ [][profr'.calls = profr.calls + 1 =>
            LET a == profr'.activevideo
                c == profr'.rrggbb
                One(b) == IF b THEN 1 ELSE 0
            IN  /\ prof'.total_clocks = prof.total_clocks + 1
                /\ prof'.blank_clocks = prof.blank_clocks + One(~a)
                /\ prof'.active_black_clocks =
                       prof.active_black_clocks + One(a /\ c = 0)
                /\ prof'.rendered_clocks =
                       prof.rendered_clocks + One(a /\ c # 0)]_vars

\* C24 witness: all three kinds of tick have been counted, the last one a
\* black pixel of the active region.
C24_Witness ==
    /\ profr.activevideo /\ profr.rrggbb = 0
    /\ prof.blank_clocks = 2
    /\ prof.active_black_clocks = 1
    /\ prof.rendered_clocks = 3
    /\ get_total_clocks(prof) = 6

\* ---- driver with ChangeTracker

PngDone == png.called /\ png.env = Healthy

\* The big-endian 32-bit number at file[at .. at + 3] (below 2^31 here).
U32At(file, at) ==
    ((file[at] * 256 + file[at + 1]) * 256 + file[at + 2]) * 256 + file[at + 3]

\* The payload of the data chunk of a complete file: the signature (8
\* bytes) and the header chunk (25) precede its length and type.
DataPayload == SubSeq(png.file, 42, 41 + U32At(png.file, 34))

\* A reader of stored blocks: from position pos of z, the blocks up to and
\* including the first one flagged final, or up to where z ends.
RECURSIVE ReadBlocks(_, _)
ReadBlocks(z, pos) ==
    IF pos + 4 > Len(z) THEN <<>>
    ELSE LET len == z[pos + 1] + 256 * z[pos + 2]
             last == Min(pos + 4 + len, Len(z))
             blk == [final |-> z[pos], len |-> len,
                     nlen |-> z[pos + 3] + 256 * z[pos + 4],
                     payload |-> SubSeq(z, pos + 5, last), end |-> last]
         IN  IF blk.final # 0 \/ len = 0 THEN <<blk>>
             ELSE <<blk>> \o ReadBlocks(z, last + 1)

RECURSIVE Concat(_)
Concat(bs) == IF bs = <<>> THEN <<>> ELSE Head(bs).payload \o Concat(Tail(bs))

\* The scanline bytes a reader of the data chunk recovers.
Inflated == Concat(ReadBlocks(DataPayload, 3))

RowBytes == 1 + 4 * png.img.w

\* C25: the concatenated stored-block payloads hold, per row, one filter
\* byte 0 and then per pixel the input bytes in the order (2, 1, 0, 3), so
\* a reader recovers for every pixel exactly (R, G, B, A) of the BGRA
\* source pixel.
C25_RoundTrip ==
    PngDone =>
        /\ Len(Inflated) = png.img.h * RowBytes
        /\ \A y \in 0 .. png.img.h - 1 :
              /\ Inflated[y * RowBytes + 1] = 0
              /\ \A x \in 0 .. png.img.w - 1 :
                    LET src == (y * png.img.w + x) * 4
                        out == y * RowBytes + 1 + 4 * x
                    IN  /\ Inflated[out + 1] = png.img.pixels[src + 2]
                        /\ Inflated[out + 2] = png.img.pixels[src + 1]
                        /\ Inflated[out + 3] = png.img.pixels[src]
                        /\ Inflated[out + 4] = png.img.pixels[src + 3]

\* C25 witness: a 2 x 2 image (MaxDim x MaxDim) whose source bytes are
\* 1, 2, 3, ... has been encoded; its first row starts 0, 3, 2, 1, 4.
C25_Witness ==
    /\ PngDone
    /\ png.img = Ramp(MaxDim, MaxDim, 1)
    /\ SubSeq(Inflated, 1, 5) = <<0, 3, 2, 1, 4>>
    /\ Inflated[RowBytes + 1] = 0

RECURSIVE SumLen(_)
SumLen(bs) == IF bs = <<>> THEN 0 ELSE Head(bs).len + SumLen(Tail(bs))

Bit(n, i) == (n \div 2 ^ i) % 2

\* C26: the data chunk's payload is the 2-byte stream header, then one or
\* more stored blocks whose payload lengths lie between 1 and the block
\* limit and sum to H * (1 + 4 * W), each preceded by a flag byte that is 1
\* on exactly the last block and 0 on the others, its 16-bit length (low
\* byte first) and the bitwise complement of the length, then the 4-byte
\* checksum.
C26_StoredBlocks ==
    PngDone =>
        LET z == DataPayload
            bs == ReadBlocks(z, 3)
        IN  /\ z[1] = 120 /\ z[2] = 1
            /\ Len(bs) >= 1
            /\ \A k \in 1 .. Len(bs) :
                  /\ bs[k].len >= 1 /\ bs[k].len <= MAX_STORED
                  /\ Len(bs[k].payload) = bs[k].len
                  /\ bs[k].final = IF k = Len(bs) THEN 1 ELSE 0
                  /\ \A i \in 0 .. 15 : Bit(bs[k].len, i) + Bit(bs[k].nlen, i) = 1
            /\ SumLen(bs) = png.img.h * RowBytes
            /\ bs[Len(bs)].end + 4 = Len(z)

\* C26 witness: a row longer than one block was encoded into a full block,
\* not final, whose length has two non-zero bytes, and a final block.
C26_Witness ==
    /\ PngDone
    /\ png.img.w = LongRow + 1
    /\ LET bs == ReadBlocks(DataPayload, 3)
       IN  /\ Len(bs) = 2
           /\ bs[1].final = 0 /\ bs[1].len = MAX_STORED /\ bs[1].len > 256
           /\ bs[2].final = 1 /\ bs[2].len = RowBytes - MAX_STORED

\* The bytewise CRC-32 with the 256-entry table of the reflected
\* polynomial 0xEDB88320.
CrcPoly == <<14, 13, 11, 8, 8, 3, 2, 0>>
WordShr1(w) ==
    <<w[1] \div 2, w[2] \div 2 + 8 * (w[1] % 2), w[3] \div 2 + 8 * (w[2] % 2),
      w[4] \div 2 + 8 * (w[3] % 2), w[5] \div 2 + 8 * (w[4] % 2),
      w[6] \div 2 + 8 * (w[5] % 2), w[7] \div 2 + 8 * (w[6] % 2),
      w[8] \div 2 + 8 * (w[7] % 2)>>
WordShr8(w) == <<0, 0, w[1], w[2], w[3], w[4], w[5], w[6]>>
CrcBitStep(c) == IF c[8] % 2 = 1 THEN WordXor(CrcPoly, WordShr1(c)) ELSE WordShr1(c)
CrcTable256 ==
    [n \in 0 .. 255 |->
        CrcBitStep(CrcBitStep(CrcBitStep(CrcBitStep(
            CrcBitStep(CrcBitStep(CrcBitStep(CrcBitStep(WordOf(n)))))))))]
RECURSIVE CrcBytewise(_, _, _)
CrcBytewise(c, buf, i) ==
    IF i > Len(buf) THEN c
    ELSE LET x == WordXorByte(c, buf[i])
         IN  CrcBytewise(WordXor(CrcTable256[x[7] * 16 + x[8]], WordShr8(x)),
                         buf, i + 1)
StandardCrc32(start, buf) == WordNot(CrcBytewise(WordNot(start), buf, 1))

\* C27: crc32 returns, for every start value and byte string, what the
\* standard bytewise CRC-32 returns; for the empty string that is the start
\* value; and the checksum of a string is the checksum of any tail of it
\* started from the checksum of the head before.
C27_Crc32 ==
    crcv.called =>
        /\ crcv.out = StandardCrc32(crcv.crc, crcv.buf)
        /\ crcv.buf = <<>> => crcv.out = crcv.crc
        /\ \A k \in 0 .. Len(crcv.buf) :
              crc32(crc32(crcv.crc, SubSeq(crcv.buf, 1, k)),
                    SubSeq(crcv.buf, k + 1, Len(crcv.buf))) = crcv.out

\* C27 witness: the checksum of the bytes 0x49, 0x01, 0xFF from the start
\* value 0 has been computed and is 0xB413B191.
C27_Witness ==
    /\ crcv.called
    /\ crcv.crc = WordOf(0)
    /\ crcv.buf = <<73, 1, 255>>
    /\ crcv.out = <<11, 4, 1, 3, 11, 1, 9, 1>>

\* Sums over Inflated[lo .. hi] of the bytes, and of the bytes weighted by
\* the number of bytes from them to the end of the stream.
RECURSIVE ByteSum(_, _)
ByteSum(lo, hi) ==
    IF lo > hi THEN 0
    ELSE IF lo = hi THEN Inflated[lo]
    ELSE ByteSum(lo, (lo + hi) \div 2) + ByteSum((lo + hi) \div 2 + 1, hi)
RECURSIVE WeightedSum(_, _)
WeightedSum(lo, hi) ==
    IF lo > hi THEN 0
    ELSE IF lo = hi THEN (Len(Inflated) - lo + 1) * Inflated[lo]
    ELSE WeightedSum(lo, (lo + hi) \div 2) + WeightedSum((lo + hi) \div 2 + 1, hi)

\* The two accumulators of the running checksum over the recovered bytes.
TrailerS1 == (1 + ByteSum(1, Len(Inflated))) % 65521
TrailerS2 == (Len(Inflated) + WeightedSum(1, Len(Inflated))) % 65521

\* C28: the last four bytes of the data chunk's payload are s2 * 65536 + s1,
\* the most significant byte first, where over all scanline bytes in stream
\* order s1 starts at 1 and adds each byte modulo 65521 and s2 starts at 0
\* and adds each new s1 modulo 65521; both stay below 65521; over no bytes
\* the value is 1.
C28_Trailer ==
    /\ AdlerWord(Adler32(<<>>)) = WordOf(1)
    /\ PngDone =>
          LET z == DataPayload
              s == Adler32(Inflated)
          IN  /\ SubSeq(z, Len(z) - 3, Len(z)) =
                     <<TrailerS2 \div 256, TrailerS2 % 256,
                       TrailerS1 \div 256, TrailerS1 % 256>>
              /\ s.s1 = TrailerS1 /\ s.s2 = TrailerS2
              /\ s.s1 < 65521 /\ s.s2 < 65521

\* C28 witness: the bytes of an encoded row add up to more than 65521, so
\* both sums have wrapped.
C28_Witness ==
    /\ PngDone
    /\ png.img = Flat(LongRow + 1, 1, 255)
    /\ 1 + ByteSum(1, Len(Inflated)) > 65521
    /\ DataPayload[Len(DataPayload) - 1] * 256 + DataPayload[Len(DataPayload)] =
           1 + ByteSum(1, Len(Inflated)) - 65521

\* The file a call leaves when nothing fails.
CompleteFile == save_png(png.img.pixels, png.img.w, png.img.h, Healthy).file

\* C29: whenever the destination cannot be opened or does not hold the
\* complete file after the call, the caller of save_framebuffer_png has
\* been told that the encode failed.
C29_FailureSignalled ==
    png.called /\ (~png.opened \/ png.file # CompleteFile) => png.failed

\* ---- CoordinateValidator error count
\* C40: after any sequence of validate and mark_frame_complete calls the
\* error count lies in 0 .. ERROR_THRESHOLD; no call decreases it; and once
\* the silent flag is set (threshold reached or first frame-start seen) no
\* call changes it.
C40_CountFrozen ==
    /\ [](0 <= get_error_count(cv) /\ get_error_count(cv) <= ERROR_THRESHOLD)
    /\ [][/\ get_error_count(cv') >= get_error_count(cv)
          /\ cv.silent_mode => get_error_count(cv') = get_error_count(cv)]_vars

\* C40 witness: a call with both coordinates out of range was made one
\* below the threshold: the first failed check brought the count to the
\* threshold and silenced the validator, the second was not counted.
C40_Witness ==
    /\ cv.error_count = ERROR_THRESHOLD /\ cv.silent_mode /\ ~cv.frame_complete
    /\ cvr.op = "validate" /\ ~cvr.valid
    /\ cvr.hpos = -1 /\ cvr.vpos = -1
    /\ cvr.lines = {"hpos", "threshold"}

\* ---- SyncValidator, pulses not seen from the start
\* C38 as claimed: the rising edge of a sync signal of which no falling
\* edge has been observed (the stream began with the signal low) leaves
\* that signal's error count unchanged.
C38_NoFalsePositive ==
    [][/\ (StepHRise /\ obs.hfalls = 0) => HErrorsAdded(0)
       /\ (StepVRise /\ obs.vfalls = 0) => VErrorsAdded(0)]_vars

\* ---- TimingMonitor edge rules
\* The edges of the step's sample against the sample fed before it.
MeasHFall == meas.fed /\ meas.hsync /\ ~meas'.hsync
MeasHRise == meas.fed /\ ~meas.hsync /\ meas'.hsync
MeasVFall == meas.fed /\ meas.vsync /\ ~meas'.vsync
MeasVRise == meas.fed /\ ~meas.vsync /\ meas'.vsync

\* measured differs from expected by more than 1.
OffByMoreThanOne(measured, expected) ==
    measured < expected - 1 \/ measured > expected + 1

\* The step adds 1 to the counter if c holds and leaves it alone if not.
CountedIff(after, before, c) == after = before + (IF c THEN 1 ELSE 0)

HCounters(m) == <<m.hsync_errors, m.h_total_errors, m.h_active_errors>>
VCounters(m) == <<m.vsync_errors, m.v_total_errors, m.v_active_errors>>

\* C34: the monitor has seen an hsync (vsync) falling edge exactly when the
\* stream has had one, a first sample with the sync low being none; while
\* the stream has had no hsync (vsync) falling edge the hsync-width,
\* horizontal-total and active-width (vsync-width, vertical-total and
\* active-lines) counters are 0, and the tick of the first falling edge
\* itself counts nothing for the period it ends; the first tick only
\* records the two sync levels.
C34_FirstPeriodDiscarded ==
    /\ [](/\ mon.hsync_seen <=> meas.hfalls >= 1
          /\ mon.vsync_seen <=> meas.vfalls >= 1
          /\ meas.hfalls = 0 => HCounters(mon) = <<0, 0, 0>>
          /\ meas.vfalls = 0 => VCounters(mon) = <<0, 0, 0>>)
    /\ [][/\ meas.hfalls = 0 => HCounters(mon') = <<0, 0, 0>>
          /\ meas.vfalls = 0 => VCounters(mon') = <<0, 0, 0>>
          /\ ~meas.fed =>
                mon' = [MonitorNew EXCEPT !.prev_hsync = meas'.hsync,
                                          !.prev_vsync = meas'.vsync,
                                          !.first_sample = FALSE]]_vars

\* C34 witness: the stream began with hsync low and hsync has risen since:
\* the monitor saw low samples but no falling edge and counted no width
\* error for the pulse, whose observed part is more than 1 short of H_SYNC.
C34_Witness ==
    /\ meas.fed /\ meas.hfalls = 0 /\ meas.hsync
    /\ ~mon.hsync_seen /\ mon.prev_hsync
    /\ mon.hsync_pulse_width > 0 /\ mon.hsync_pulse_width < H_SYNC - 1
    /\ mon.hsync_errors = 0

\* ---- TimingMonitor, coincident edges
\* The drift-free signal whose vsync toggles on the sample where hsync falls.
Coincident == DriftFree /\ gen.align = HSyncStart

\* A tick whose sample has both a vsync and an hsync falling edge validates
\* the finished frame on the line counts it had before the tick and leaves
\* the line closed by the hsync edge as the first one of the new frame.
VerticalFirst ==
    (MeasVFall /\ MeasHFall) =>
        /\ meas.vfalls >= 1 =>
              /\ CountedIff(mon'.v_total_errors, mon.v_total_errors,
                            OffByMoreThanOne(mon.v_counter, V_TOTAL))
              /\ CountedIff(mon'.v_active_errors, mon.v_active_errors,
                            mon.v_active_lines > 0 /\
                            OffByMoreThanOne(mon.v_active_lines, V_RES))
        /\ meas.hfalls >= 1 =>
              /\ mon'.v_counter = 1
              /\ mon'.v_active_lines = (IF meas.hact > 0 THEN 1 ELSE 0)
              /\ mon'.vsync_pulse_lines = 1
        /\ meas.hfalls = 0 =>
              /\ mon'.v_counter = 0 /\ mon'.v_active_lines = 0
              /\ mon'.vsync_pulse_lines = 0

TotalErrors(m) ==
    m.hsync_errors + m.vsync_errors + m.h_total_errors + m.v_total_errors +
    m.h_active_errors + m.v_active_errors

\* C36: silent_mode and frame_complete are equal at all times, become true
\* at the second vsync falling edge of the stream (the first full frame
\* validated) and never revert; none of the six counters ever decreases; a
\* tick of a silent monitor writes nothing and counts exactly what the same
\* tick of a monitor that is not silent counts; a tick before and after
\* which the monitor is not silent writes one line per error it counts.
C36_SilentCountsOn ==
    /\ [](/\ mon.silent_mode <=> mon.frame_complete
          /\ mon.silent_mode <=> meas.vfalls >= 2)
    /\ [][/\ mon.silent_mode => mon'.silent_mode /\ mon'.emitted = {}
          /\ mon.frame_complete => mon'.frame_complete
          /\ \A k \in DOMAIN ErrorCounts(mon) :
                ErrorCounts(mon')[k] >= ErrorCounts(mon)[k]
          /\ \E s \in MonSamples :
                /\ mon' = Tick(mon, s)
                /\ ErrorCounts(mon') =
                      ErrorCounts(Tick([mon EXCEPT !.silent_mode = FALSE], s))
          /\ ~mon'.silent_mode =>
                Cardinality(mon'.emitted) = TotalErrors(mon') - TotalErrors(mon)]_vars

\* C36 witness: after the first full frame an hsync pulse was fed TOLERANCE
\* + 1 samples too wide; the tick of its rising edge, with vsync high, has
\* counted the width error and written nothing.
C36_Witness ==
    /\ mon.silent_mode /\ mon.frame_complete
    /\ gen.pert.sig = "h" /\ gen.pert.delta = TOLERANCE + 1
    /\ meas.hsync /\ meas.vsync
    /\ mon.hsync_pulse_width = H_SYNC + TOLERANCE + 1
    /\ mon.h_counter = mon.hsync_pulse_width + 1
    /\ mon.hsync_errors = 1 /\ TotalErrors(mon) = 1
    /\ mon.emitted = {}

\* ---- image encoder, size of the data-chunk buffer
\* Largest width and height of the sizes the bound is evaluated for.
MaxSweep == 24

\* Sizes of the real encoder's range, to be taken with its block limit of
\* 65535: the smallest image, the frame of the 640 x 480 mode, single rows
\* on both sides of the one-block limit, and a large square.
RealSizes == {<<1, 1>>, <<640, 480>>, <<16383, 1>>, <<16384, 1>>, <<4096, 4096>>}

\* 2 header bytes, 5 bytes per stored block for ceil(rs / limit) blocks,
\* the rs bytes themselves and 4 checksum bytes.
StoredBytes(rs, limit) == 2 + 5 * ((rs + limit - 1) \div limit) + rs + 4

\* C39: a completed call has stored into idat exactly 2 + 5 * ceil(raw_size
\* / block limit) + raw_size + 4 bytes, which is at most the size idat was
\* allocated with, and the length field of the data chunk is that number,
\* which is also the number of payload bytes in the file; no call, completed
\* or not, stores more than was allocated; the bound holds for every width
\* and height in 1 .. MaxSweep at the model's block limit, and at the limit
\* 65535 for the sizes of RealSizes.
C39_BufferBound ==
    /\ png.called => png.idat_size <= png.allocated
    /\ PngDone =>
          /\ png.idat_size =
                StoredBytes(raw_size(png.img.w, png.img.h), MAX_STORED)
          /\ png.allocated = max_deflate_size(raw_size(png.img.w, png.img.h))
          /\ U32At(png.file, 34) = png.idat_size
          /\ Len(DataPayload) = png.idat_size
          /\ Len(png.file) = 33 + (12 + png.idat_size) + 12
    /\ \A w \in 1 .. MaxSweep, h \in 1 .. MaxSweep :
          StoredBytes(raw_size(w, h), MAX_STORED) <= max_deflate_size(raw_size(w, h))
    /\ \A wh \in RealSizes :
          StoredBytes(raw_size(wh[1], wh[2]), 65535) <=
              max_deflate_size(raw_size(wh[1], wh[2]))

\* C39 witness: the row that needs two stored blocks has been encoded: 2 + 2
\* * 5 + raw_size + 4 bytes were stored, within the allocated size, and the
\* length field says so.
C39_Witness ==
    /\ PngDone
    /\ png.img = Flat(LongRow + 1, 1, 255)
    /\ raw_size(png.img.w, png.img.h) > MAX_STORED
    /\ png.idat_size = raw_size(png.img.w, png.img.h) + 16
    /\ png.idat_size <= png.allocated
    /\ U32At(png.file, 34) = png.idat_size

\* ---- driver with CoordinateValidator
\* C37: inside simulate_frame, at the head of every iteration and where the
\* iteration decides on the write (after the frame-start test of its
\* sample), row_base is vpos * H_RES * 4 if 0 <= vpos < V_RES and -1
\* otherwise, for every sample sequence and every split into calls; every
\* validate call the driver makes returns true, the validator's error
\* count stays 0, and framebuffer, position and stores are those of the
\* decoder run without a validator on the same samples.
C37_RowBaseConsistent ==
    /\ [](/\ clocks > 0 => row_base = RowBase(vpos)
          /\ cv.error_count = 0 /\ ~coord_has_errors(cv)
          /\ cvr.op = "validate" =>
                /\ cvr.valid /\ cvr.lines = {}
                /\ CoordOk(cvr.hpos, cvr.vpos, cvr.row_base)
          /\ fb = ref.fb /\ hpos = ref.hpos /\ vpos = ref.vpos /\ wr = ref.wr)
    /\ [][clocks > 0 =>
            LET at == IF ~top'.hsync /\ ~top'.vsync
                      THEN [vpos |-> -V_BP, row_base |-> -1]
                      ELSE [vpos |-> vpos, row_base |-> row_base]
            IN  /\ at.vpos >= 0 /\ at.vpos < V_RES => at.row_base = at.vpos * H_RES * 4
                /\ ~(at.vpos >= 0 /\ at.vpos < V_RES) => at.row_base = -1]_vars

\* C37 witness: a call of simulate_frame that began in the middle of the
\* last row has just stored its last pixel, after validate returned true on
\* the row base computed on entry, with the first frame already complete.
C37_Witness ==
    /\ clocks = 0
    /\ cvr.op = "validate" /\ cvr.valid
    /\ cvr.hpos = H_RES - 1 /\ cvr.vpos = V_RES - 1
    /\ cvr.row_base = (V_RES - 1) * H_RES * 4
    /\ cv.frame_complete /\ cv.error_count = 0
    /\ wr # {} /\ hpos = H_RES /\ vpos = V_RES - 1

\* ---- session
\* C31: in a session of either mode, with any subset of TimingMonitor,
\* SyncValidator, CoordinateValidator, ChangeTracker, RenderProfiler and
\* trace sink enabled and whatever errors they count, the framebuffer, the
\* position and the stores after every edge are those of the plain decoder
\* on the same samples; and every iteration of an active simulate_frame
\* call processes its edge: it decodes the sample as the plain decoder does
\* and uses up exactly one clock.
C31_ValidatorsTransparent ==
    /\ [](sess.mode # "off" =>
            /\ fb = ref.fb /\ hpos = ref.hpos /\ vpos = ref.vpos
            /\ wr = ref.wr /\ prev_vsync = ref.prev_vsync)
    /\ [][sess.phase = "batch" /\ clocks > 0 =>
            /\ clocks' = clocks - 1
            /\ sess'.edges = sess.edges + 1
            /\ fb' = EdgeStep(Decoder, top').fb
            /\ hpos' = EdgeStep(Decoder, top').hpos
            /\ vpos' = EdgeStep(Decoder, top').vpos]_vars

\* C31 witness: a save-mode session with every flag given has just stored a
\* pixel of its second frame, while monitor and sync validator have counted
\* errors, the coordinate validator has accepted the write, the tracker has
\* been shown a frame, the profiler has counted rendered clocks and the
\* trace has been dumped to.
C31_Witness ==
    /\ sess.mode = "save" /\ sess.on = Flags
    /\ has_errors(mon) /\ sync_has_errors(sv)
    /\ cv.frame_complete /\ cvr.op = "validate" /\ cvr.valid
    /\ Len(shown) > 0
    /\ prof.rendered_clocks > 0
    /\ sess.trace_time > 2 * ResetCycles
    /\ wr # {}
    /\ sess.edges > FrameTicks

\* C32: a TimingMonitor enabled by --validate-timing reports exactly once:
\* in interactive mode at the end of the first batch at whose end
\* is_complete() holds (at every later head of the loop, and when the loop
\* has ended, it has reported if and only if it is complete), after which
\* the pointer is null and the object receives no further tick; otherwise,
\* and always in save mode, in the final reports.  Every other enabled
\* validator reports exactly once, in the final reports; a validator
\* that is not enabled never reports.
C32_ReportsOnce ==
    /\ [](sess.mode # "off" =>
            /\ \A f \in ValidatorFlags :
                  /\ sess.reports[f] <= 1
                  /\ f \notin sess.on => sess.reports[f] = 0
                  /\ sess.phase = "done" /\ f \in sess.on => sess.reports[f] = 1
                  /\ sess.phase # "done" /\ f # "timing" => sess.reports[f] = 0
            /\ sess.mode = "save" /\ sess.phase # "done" =>
                  sess.reports["timing"] = 0
            /\ sess.mode = "interactive" /\ "timing" \in sess.on /\
               sess.phase \in {"loop", "final"} =>
                  (sess.reports["timing"] = 1 <=> is_complete(mon))
            /\ sess.reports["timing"] = 1 => ~sess.monitor)
    /\ [][sess.reports["timing"] >= 1 => mon' = mon /\ meas' = meas]_vars

\* C32 witness: an interactive session with every validator enabled has
\* ended with one report each; the monitor had reported inside the loop,
\* for the last sample of the session was not fed to it.
C32_Witness ==
    /\ sess.mode = "interactive" /\ sess.phase = "done"
    /\ ValidatorFlags \subseteq sess.on
    /\ \A f \in ValidatorFlags : sess.reports[f] = 1
    /\ is_complete(mon)
    /\ meas.hsync # top.hsync

====
